---- MODULE Spec2Model ----
(***************************************************************************)
(* The sharded priority queue of distributed-queue: message repository,    *)
(* per-shard dequeue workers and ack/nack workers, the prefetch priority   *)
(* buffer and the HTTP dequeue / ack handlers.                             *)
(*                                                                         *)
(* Time is a discrete clock `now`.  Its reading saturates at MaxTime, so a *)
(* row whose ExpiresAt lies beyond MaxTime does not expire in the explored *)
(* window; backoff timers are kept as remaining ticks and keep running.    *)
(***************************************************************************)
EXTENDS Integers, Sequences, FiniteSets, TLC

\* ---- bounds of the exploration ----------------------------------------
MaxMsgs       == 3     \* rows ever saved (Spec)
MaxShardMsgs  == 2     \* rows ever saved (SpecShards)
MaxFaultyMsgs == 2     \* rows ever saved (SpecFaulty)
MaxTimedMsgs  == 1     \* rows ever saved (SpecTimed)
MaxTime       == 2     \* clock readings 0..MaxTime
MaxDelay      == 1     \* DeliverAfter in 0..MaxDelay
MaxTTL        == 3     \* TTL in 0..MaxTTL
MaxRepoErrors == 2     \* repository calls that fail in one run
MaxErrorReqs  == 2     \* enqueue requests of one run (SpecErrors)
MaxFaultyErrors == 1   \* repository calls that fail in one run (SpecFaulty)
MaxEnvMsgs    == 3     \* messages offered to the buffer (SpecBuffer)
MaxBatch      == 3     \* length of a batch offered to the buffer (SpecBuffer)
MaxFairMsgs   == 3     \* rows ever saved (SpecFair)
MaxEnqueueReqs == 3    \* enqueue requests of one run
MaxRouteMsgs  == 2     \* rows ever saved (SpecRoute)
MaxTopicMsgs  == 4     \* rows ever saved (SpecTopics)
MaxDropMsgs   == 2     \* messages offered to the buffer (SpecDrop)
MaxPrioMsgs   == 2     \* rows ever saved (SpecPriority)
MaxDeqMsgs    == 2     \* rows ever saved (SpecDequeue)
MaxAdds       == 4     \* ShardManager.Add calls of one run
MaxStopReqs   == 1     \* enqueue requests of one run (SpecShutdown)
MaxRouted     == 2     \* requests waiting on one ack channel (SpecRoute)
MaxBackoffCalls == 10  \* consecutive Backoff() calls (SpecBackoff)

\* ---- program constants, scaled down to ticks / small counts -----------
MaxPrefetchItemCount        == 2   \* 100 in the source
dequeueBatchSize            == 2   \* 100 in the source
defaultDequeueLimitPerTopic == 2   \* 20 in the source
backoffInitialDuration      == 1   \* 10ms
backoffMaxDuration          == 2   \* 5s
topicBackoffMaxDuration     == 2   \* 5s
backoffFactor               == 2

\* two of the shards of shardConfs, each with its dequeue and ack worker
Shards    == {1, 2}
\* topics and priorities of the messages sent to the buffer (SpecBuffer)
Topics     == {1, 2}
Priorities == {1, 2}
\* concurrent HTTP dequeue handlers
Consumers == {1}
\* the HandleDequeue calls of a run with a consumer that is gone (SpecDrop)
DequeueHandlers == {1, 2}
\* HTTP enqueue requests, each served by one HandleEnqueue call
EnqueueRequests == 1..MaxEnqueueReqs

PrefetchStatusOk      == 0
PrefetchStatusBackoff == 1

VARIABLES
  now,            \* time.Now()
  msgLog,         \* every row ever inserted into messages, indexed by id
  rowIds,         \* ids of the rows currently in the messages tables
  prefetched,     \* ids of the rows with prefetched = true
  repoErrs,       \* repository calls that failed so far
  acked,          \* ids for which AckNack(shard, id, true) returned nil
  nacked,         \* ids for which AckNack(shard, id, false) returned nil
  dwPc,           \* DequeueWorker: position in runLoop / dequeueMessages
  dwBatch,        \* DequeueWorker: msgs of the latest dequeueMessages call
  dwReply,        \* DequeueWorker: reply the buffer gave to that call
  dwTimer,        \* DequeueWorker: ticks until loopBackoff.After() fires
  loopBackoff,    \* DequeueWorker: loop-level BackoffStrategy
  dwErr,          \* DequeueWorker: err of the latest dequeueMessages is not nil
  topicBackoffs,  \* DequeueWorker: topic -> BackoffStrategy
  buffers,        \* PriorityBuffer: topic -> msgHeap
  ingestCh,       \* PriorityBuffer: envelopes waiting on ingestCh
  apiReqCh,       \* PriorityBuffer: GetItemsRequests waiting on apiReqCh
  pbPc,           \* PriorityBuffer: position in serveLoop
  pbReply,        \* PriorityBuffer: reply of the GetItems being answered
  cPc,            \* dequeue handler: position in HandleDequeue
  cHeld,          \* messages a consumer received and has not acked/nacked
  ackCh,          \* AckNackWorker: requests waiting on buffer, per shard
  envIds,         \* ids used by the buffer-only specification
  enqCh,          \* EnqueueBuffer: requests waiting on the shared channel
  ewPc,           \* EnqueueWorker: position in runLoop, per shard
  ewReply,        \* EnqueueWorker: reply being sent on RespCh, per shard
  hPc,            \* enqueue handler: position in HandleEnqueue, per request
  hResp,          \* enqueue handler: reply received on respCh, per request
  routed,         \* outcome of the latest AckNackRouter.Route call
  bo,             \* a BackoffStrategy used on its own (SpecBackoff)
  boParams,       \* its initialDuration, factor and durationCap
  boCalls,        \* Backoff() calls since NewBackoff or the last Reset
  stopReq,        \* workers whose Stop() waits on the shutdown channel
  stopped,        \* workers whose runLoop has returned
  uuid,           \* a UUID on its own (SpecUUID), as its bytes
  text,           \* a string: the result of String() or a caller's input
  parsed,         \* the result of ParseUUID(text)
  uuPc,           \* which of the three has been computed
  cDeadline,      \* dequeue handler: ticks until ctx.Done(), per request
  cStatus,        \* dequeue handler: status code written, per request
  httpReq,        \* the body of the HTTP request being handled
  httpResp,       \* the response its handler wrote
  smShards,       \* ShardManager.shards
  smIndex,        \* ShardManager.index
  cacheItems,     \* ObjectsCache.items: key -> *CacheItem
  evictionHeap,   \* ObjectsCache.evictionHeap
  ocPc,           \* ObjectsCache: the Put a goroutine is in the middle of
  ocLast,         \* ObjectsCache: the latest call that returned
  ocPuts,         \* ObjectsCache: key -> what its latest Put stored
  droppedIds      \* ids of the messages of dropped replies, not NACKed since

vars == << now, msgLog, rowIds, prefetched, repoErrs, acked, nacked,
           dwPc, dwBatch, dwReply, dwTimer, loopBackoff, dwErr,
           topicBackoffs, buffers, ingestCh, apiReqCh, pbPc, pbReply,
           cPc, cHeld, ackCh, envIds, enqCh, ewPc, ewReply, hPc, hResp,
           routed, stopReq, stopped, bo, boParams, boCalls,
           uuid, text, parsed, uuPc, cDeadline, cStatus, httpReq, httpResp,
           smShards, smIndex,
           cacheItems, evictionHeap, ocPc, ocLast, ocPuts, droppedIds >>

boVars == << bo, boParams, boCalls >>
uuVars == << uuid, text, parsed, uuPc >>
hdVars == << cDeadline, cStatus >>
httpVars == << httpReq, httpResp >>
smVars == << smShards, smIndex >>
ocVars == << cacheItems, evictionHeap, ocPc, ocLast, ocPuts >>
\* the state of the functions and handlers that are specified on their own
libVars == << uuVars, hdVars, httpVars, smVars, ocVars, droppedIds >>

Min(a, b) == IF a < b THEN a ELSE b
Max(a, b) == IF a > b THEN a ELSE b

Range(s) == { s[i] : i \in 1..Len(s) }

\* ---- msgHeap and container/heap ----------------------------------------
\* A heap is the Go slice; index i of the source is element i+1 here.

\* the comparison of a max-heap
LessGreater(h, i, j) == h[i + 1].priority > h[j + 1].priority

Less(h, i, j) == h[i + 1].priority < h[j + 1].priority

Swap(h, i, j) == [h EXCEPT ![i + 1] = h[j + 1], ![j + 1] = h[i + 1]]

RECURSIVE up(_, _)
up(h, j) ==
  IF j = 0 THEN h
  ELSE LET i == (j - 1) \div 2 IN
       IF ~Less(h, j, i) THEN h ELSE up(Swap(h, i, j), i)

RECURSIVE down(_, _, _)
down(h, i, n) ==
  LET j1 == 2 * i + 1 IN
  IF j1 >= n THEN h
  ELSE LET j2 == j1 + 1
           j  == IF j2 < n /\ Less(h, j2, j1) THEN j2 ELSE j1
       IN IF ~Less(h, j, i) THEN h ELSE down(Swap(h, i, j), j, n)

heapPush(h, x) == up(Append(h, x), Len(h))

\* heap.Pop: the popped item and the remaining heap
heapPop(h) ==
  LET n == Len(h) - 1
      s == down(Swap(h, 0, n), 0, n)
  IN [item |-> s[n + 1], heap |-> SubSeq(s, 1, n)]

\* ---- PriorityBuffer ----------------------------------------------------

RECURSIVE ingestFrom(_, _, _, _)
ingestFrom(bufs, batch, i, reply) ==
  IF i > Len(batch) THEN [buffers |-> bufs, reply |-> reply]
  ELSE LET msg   == batch[i]
           bufs1 == IF msg.topic \in DOMAIN bufs THEN bufs
                    ELSE [t \in DOMAIN bufs \cup {msg.topic} |->
                            IF t = msg.topic THEN << >> ELSE bufs[t]]
           tHeap == bufs1[msg.topic]
       IN IF Len(tHeap) < MaxPrefetchItemCount
          THEN ingestFrom([bufs1 EXCEPT ![msg.topic] = heapPush(tHeap, msg)],
                          batch, i + 1, Append(reply, PrefetchStatusOk))
          ELSE ingestFrom(bufs1, batch, i + 1,
                          Append(reply, PrefetchStatusBackoff))

\* the size test admits one message more than MaxPrefetchItemCount
RECURSIVE ingestFromOffByOne(_, _, _, _)
ingestFromOffByOne(bufs, batch, i, reply) ==
  IF i > Len(batch) THEN [buffers |-> bufs, reply |-> reply]
  ELSE LET msg   == batch[i]
           bufs1 == IF msg.topic \in DOMAIN bufs THEN bufs
                    ELSE [t \in DOMAIN bufs \cup {msg.topic} |->
                            IF t = msg.topic THEN << >> ELSE bufs[t]]
           tHeap == bufs1[msg.topic]
       IN IF Len(tHeap) <= MaxPrefetchItemCount
          THEN ingestFromOffByOne(
                 [bufs1 EXCEPT ![msg.topic] = heapPush(tHeap, msg)],
                 batch, i + 1, Append(reply, PrefetchStatusOk))
          ELSE ingestFromOffByOne(bufs1, batch, i + 1,
                                  Append(reply, PrefetchStatusBackoff))

processIngestOffByOne(bufs, batch) == ingestFromOffByOne(bufs, batch, 1, << >>)

\* the statuses are written from the end of the reply
processIngestReversed(bufs, batch) ==
  LET r == ingestFrom(bufs, batch, 1, << >>)
      n == Len(r.reply)
  IN [buffers |-> r.buffers, reply |-> [i \in 1..n |-> r.reply[n + 1 - i]]]

processIngest(bufs, batch) == ingestFrom(bufs, batch, 1, << >>)

RECURSIVE popN(_, _, _)
popN(h, n, out) ==
  IF n = 0 THEN [heap |-> h, msgs |-> out]
  ELSE LET r == heapPop(h) IN popN(r.heap, n - 1, Append(out, r.item))

\* make([]domain.Message, n) panics when n is negative
processGetItems(bufs, topic, reqLimit) ==
  IF topic \notin DOMAIN bufs
  THEN [buffers |-> bufs, msgs |-> << >>, panic |-> FALSE]
  ELSE LET limit == IF reqLimit = 0 THEN defaultDequeueLimitPerTopic
                    ELSE reqLimit
           n     == Min(Len(bufs[topic]), limit)
           r     == popN(bufs[topic], n, << >>)
       IN IF n < 0 THEN [buffers |-> bufs, msgs |-> << >>, panic |-> TRUE]
          ELSE [buffers |-> [bufs EXCEPT ![topic] = r.heap], msgs |-> r.msgs,
                panic |-> FALSE]

\* ---- BackoffStrategy ---------------------------------------------------
\* duration is the current delay; remaining is nextActivation - now, kept
\* down to -1 (nextActivation strictly in the past).

NewBackoff == [duration |-> 0, remaining |-> -1]

\* the unit in the last place of the float32 nearest to x, 0 <= x < 2^31:
\* a float32 has a significand of 24 bits
RECURSIVE ulp(_)
ulp(x) == IF x < 16777216 THEN 1 ELSE 2 * ulp(x \div 2)

\* float32(x): x rounded to the nearest float32, ties to the even significand
float32(x) ==
  LET u == ulp(x)
      q == x \div u
      r == x % u
  IN IF 2 * r > u \/ (2 * r = u /\ q % 2 = 1) THEN (q + 1) * u ELSE q * u

\* the cap is applied to the old duration, not to the new one
BackoffCapsBefore(s, base, factor, cap) ==
  LET d == base + float32(float32(Min(s.duration, cap)) * factor)
  IN [duration |-> d, remaining |-> d]

\* initialDuration + Duration(float32(duration) * factor), capped; the factor
\* is a whole number, the product is rounded to float32 once more
Backoff(s, base, factor, cap) ==
  LET d == base + float32(float32(s.duration) * factor)
      c == IF d > cap THEN cap ELSE d
  IN [duration |-> c, remaining |-> c]

\* Active with time.Now() not before nextActivation
ActiveNotBefore(s) == s.remaining <= 0

Active(s) == s.remaining < 0

\* Reset sets nextActivation and leaves the delay as it is
ResetKeepsDuration(s) == [duration |-> s.duration, remaining |-> 0]

Reset(s) == [duration |-> 0, remaining |-> 0]

\* the delay of the timer After() returns
After(s) == s.duration

tickBackoff(s) == [s EXCEPT !.remaining = Max(s.remaining - 1, -1)]

\* loopBackoff is only read through After(): its nextActivation is not kept
untimed(s) == [s EXCEPT !.remaining = -1]

\* Durations of a strategy used on its own are counted in units of 128ns:
\* every duration below is a whole number of units, and scaling by a power
\* of two commutes with rounding to float32.
Second == 7812500
Minute == 468750000

\* the parameters of loopBackoff and of the topic backoffs, those of the
\* strategy of the tests, and those of the workers of this model (in ticks)
loopParams == [base |-> Second \div 100, factor |-> 2, cap |-> 5 * Second]
testParams == [base |-> Second, factor |-> 2, cap |-> Minute]
tickParams == [base |-> backoffInitialDuration, factor |-> backoffFactor,
               cap |-> backoffMaxDuration]
BackoffParams == { loopParams, testParams, tickParams }

\* ---- MessageRepository -------------------------------------------------

\* UUID: the shard id (bytes 0-4) and the generated XID.  A row is known in
\* the model by its XID, the index of the row in msgLog.
\* every id carries the id of the main shard
NewUUIDOfMainShard(shardId, x) == << 1, x >>

NewUUID(shardId, x) == << shardId, x >>

ShardId(uid) == uid[1]

XID(uid) == uid[2]

\* the id column of row id
uidOf(id) == msgLog[id].uid

\* the row Save inserts into the messages table of shard; savedAt is the
\* time of the call
Save(shard, topic, priority, deliverAfter, ttl) ==
  [shard |-> shard, uid |-> NewUUID(shard, Len(msgLog) + 1),
   topic |-> topic, priority |-> priority,
   deliverAfter |-> deliverAfter, ttl |-> ttl, savedAt |-> now,
   readyAt |-> now + deliverAfter, expiresAt |-> now + ttl]

toMessage(id) ==
  [id |-> id, topic |-> msgLog[id].topic, priority |-> msgLog[id].priority]

\* the query without the condition on readyat
FindIgnoringReadyAt(shard, pref, excluded, maxRowsByTopic, limit) ==
  LET cand == { id \in rowIds :
                  /\ msgLog[id].shard = shard
                  /\ msgLog[id].expiresAt > now
                  /\ (id \in prefetched) = pref
                  /\ msgLog[id].topic \notin excluded }
      rn(id) == Cardinality({ j \in cand :
                  msgLog[j].topic = msgLog[id].topic /\ j <= id })
      ranked == { id \in cand : rn(id) <= maxRowsByTopic }
      k      == Cardinality(ranked)
      orders == { f \in [1..k -> ranked] :
                    \A a, b \in 1..k :
                      a < b => /\ f[a] # f[b]
                               /\ msgLog[f[a]].priority <= msgLog[f[b]].priority }
      n      == Min(k, limit)
  IN { [i \in 1..n |-> toMessage(f[i])] : f \in orders }

\* The results the query can return: the rows that match the WHERE clause,
\* numbered within their topic by id, those with rn <= maxRowsByTopic, in an
\* order of ascending priority (rows of equal priority in any order), cut at
\* limit.
FindMessagesReadyForDelivery(shard, pref, excluded, maxRowsByTopic, limit) ==
  LET cand == { id \in rowIds :
                  /\ msgLog[id].shard = shard
                  /\ msgLog[id].readyAt <= now
                  /\ msgLog[id].expiresAt > now
                  /\ (id \in prefetched) = pref
                  /\ msgLog[id].topic \notin excluded }
      rn(id) == Cardinality({ j \in cand :
                  msgLog[j].topic = msgLog[id].topic /\ j <= id })
      ranked == { id \in cand : rn(id) <= maxRowsByTopic }
      k      == Cardinality(ranked)
      orders == { f \in [1..k -> ranked] :
                    \A a, b \in 1..k :
                      a < b => /\ f[a] # f[b]
                               /\ msgLog[f[a]].priority <= msgLog[f[b]].priority }
      n      == Min(k, limit)
  IN { [i \in 1..n |-> toMessage(f[i])] : f \in orders }

\* the prefetched column after UPDATE ... SET prefetched = v WHERE id = ANY(ids)
UpdatePrefetchedBatch(ids, v) ==
  IF v THEN prefetched \cup (Range(ids) \cap rowIds)
  ELSE prefetched \ Range(ids)

\* the rows of the messages table of shard with id = uid
rowsWithId(shard, uid) ==
  { id \in rowIds : msgLog[id].shard = shard /\ uidOf(id) = uid }

\* the ack statement is the update of the nack
AckNackKeepsRow(shard, uid, ack) ==
  [rows |-> rowIds, prefetched |-> prefetched \ rowsWithId(shard, uid)]

\* the tables after AckNack on the connection of shard: DELETE on ack,
\* prefetched = false on nack, WHERE id = uid
AckNack(shard, uid, ack) ==
  IF ack THEN [rows |-> rowIds \ rowsWithId(shard, uid),
               prefetched |-> prefetched \ rowsWithId(shard, uid)]
  ELSE [rows |-> rowIds, prefetched |-> prefetched \ rowsWithId(shard, uid)]

\* ---- DequeueWorker -----------------------------------------------------

\* the elapsed backoffs are deleted and no topic is excluded
excludedTopicsNone(backoffs) ==
  LET live == { t \in DOMAIN backoffs : ~Active(backoffs[t]) }
  IN [excludes |-> {}, backoffs |-> [t \in live |-> backoffs[t]]]

\* excludedTopics: the live backoffs are excluded, the elapsed are deleted
excludedTopics(backoffs) ==
  LET live == { t \in DOMAIN backoffs : ~Active(backoffs[t]) }
  IN [excludes |-> live, backoffs |-> [t \in live |-> backoffs[t]]]

RECURSIVE responseFrom(_, _, _, _, _)
responseFrom(items, reply, i, fetchedIds, backoffs) ==
  IF i > Len(reply) THEN [fetchedIds |-> fetchedIds, backoffs |-> backoffs]
  ELSE IF reply[i] = PrefetchStatusOk
  THEN responseFrom(items, reply, i + 1,
                    Append(fetchedIds, items[i].id), backoffs)
  ELSE LET t == items[i].topic
           b == IF t \in DOMAIN backoffs THEN backoffs[t] ELSE NewBackoff
           nb == Backoff(b, backoffInitialDuration, backoffFactor,
                         topicBackoffMaxDuration)
       IN responseFrom(items, reply, i + 1, fetchedIds,
                       [x \in DOMAIN backoffs \cup {t} |->
                          IF x = t THEN nb ELSE backoffs[x]])

\* every id of the batch is handed on, whatever its status
processPrefetchResponseAllIds(items, reply, backoffs) ==
  [fetchedIds |-> [i \in 1..Len(items) |-> items[i].id],
   backoffs   |-> responseFrom(items, reply, 1, << >>, backoffs).backoffs]

processPrefetchResponse(items, reply, backoffs) ==
  responseFrom(items, reply, 1, << >>, backoffs)


\* ---- initial state: App.Run has started every worker -------------------

NoReply == [c |-> 0, msgs |-> << >>]

\* the zero EnqueueResponse; req = 0 is no request
NoEnqueueResponse == [req |-> 0, err |-> FALSE, msgId |-> << 0, 0 >>]

\* no Route call yet
NoRoute == [uid |-> << 0, 0 >>, err |-> FALSE]

\* the workers App.Run starts and stops
EnqueueW(s) == << "enqueue", s >>
DequeueW(s) == << "dequeue", s >>
AckNackW(s) == << "acknack", s >>
BufferW     == << "buffer", 0 >>

\* ParseUUID has not been called
NoParse == [err |-> FALSE, uid |-> << >>]

\* HandleDequeue has not been called
NoDeadline == -1

\* no HTTP request is being handled
NoRequest == [kind |-> "none"]
NoResponse == [status |-> 0, body |-> "none"]
\* the goroutines that call the ObjectsCache
Goroutines == { 1, 2 }
NoPut == [Key |-> "", Value |-> 0]
NoCall == [op |-> "none"]

InitAt(t) ==
  /\ now = t
  /\ msgLog = << >>
  /\ rowIds = {}
  /\ prefetched = {}
  /\ repoErrs = 0
  /\ acked = {}
  /\ nacked = {}
  /\ dwPc = [w \in Shards |-> "select"]
  /\ dwBatch = [w \in Shards |-> << >>]
  /\ dwReply = [w \in Shards |-> << >>]
  /\ dwTimer = [w \in Shards |-> 0]
  /\ loopBackoff = [w \in Shards |-> NewBackoff]
  /\ dwErr = [w \in Shards |-> FALSE]
  /\ topicBackoffs = [w \in Shards |-> << >>]
  /\ buffers = << >>
  /\ ingestCh = << >>
  /\ apiReqCh = << >>
  /\ pbPc = "select"
  /\ pbReply = NoReply
  /\ cPc = [c \in DequeueHandlers |-> "idle"]
  /\ cHeld = [c \in DequeueHandlers |-> {}]
  /\ ackCh = [s \in Shards |-> << >>]
  /\ envIds = 0
  /\ enqCh = << >>
  /\ ewPc = [s \in Shards |-> "select"]
  /\ ewReply = [s \in Shards |-> NoEnqueueResponse]
  /\ hPc = [r \in EnqueueRequests |-> "idle"]
  /\ hResp = [r \in EnqueueRequests |-> NoEnqueueResponse]
  /\ routed = NoRoute
  /\ stopReq = {}
  /\ stopped = {}
  /\ bo = NewBackoff
  /\ boParams = loopParams
  /\ boCalls = 0
  /\ uuid = << >>
  /\ text = << >>
  /\ parsed = NoParse
  /\ uuPc = "init"
  /\ cDeadline = [c \in DequeueHandlers |-> NoDeadline]
  /\ cStatus = [c \in DequeueHandlers |-> 0]
  /\ httpReq = NoRequest
  /\ httpResp = NoResponse
  /\ smShards = << >>
  /\ smIndex = << >>
  /\ cacheItems = << >>
  /\ evictionHeap = << >>
  /\ ocPc = [g \in Goroutines |-> NoPut]
  /\ ocLast = NoCall
  /\ ocPuts = << >>
  /\ droppedIds = {}

dbVars  == << msgLog, rowIds, prefetched >>
dwVars  == << dwPc, dwBatch, dwReply, dwTimer, loopBackoff,
              topicBackoffs, dwErr >>
pbVars  == << buffers, ingestCh, apiReqCh, pbPc, pbReply >>
cVars   == << cPc, cHeld >>
ewVars  == << enqCh, ewPc, ewReply, hPc, hResp >>
runVars == << stopReq, stopped >>

\* ---- time --------------------------------------------------------------

Tick ==
  /\ \/ now < MaxTime
     \/ \E w \in Shards :
          \/ dwTimer[w] > 0
          \/ \E t \in DOMAIN topicBackoffs[w] :
               topicBackoffs[w][t].remaining >= 0
  /\ now' = Min(now + 1, MaxTime)
  /\ dwTimer' = [w \in Shards |-> Max(dwTimer[w] - 1, 0)]
  /\ topicBackoffs' = [w \in Shards |->
        [t \in DOMAIN topicBackoffs[w] |-> tickBackoff(topicBackoffs[w][t])]]
  /\ UNCHANGED << dbVars, repoErrs, acked, nacked, dwPc, dwBatch, dwReply,
                  loopBackoff, pbVars, cVars, ackCh, envIds >>
  /\ UNCHANGED << ewVars, routed, runVars >>
  /\ UNCHANGED dwErr
  /\ UNCHANGED << boVars, libVars >>

\* ---- EnqueueWorker: enqueueMessage saves the row in the worker's shard -

Enqueue(s, topic, priority, deliverAfter, ttl, maxRows) ==
  /\ Len(msgLog) < maxRows
  /\ msgLog' = Append(msgLog, Save(s, topic, priority, deliverAfter, ttl))
  /\ rowIds' = rowIds \cup {Len(msgLog) + 1}
  /\ UNCHANGED << now, prefetched, repoErrs, acked, nacked, dwVars, pbVars,
                  cVars, ackCh, envIds >>
  /\ UNCHANGED << ewVars, routed, runVars >>
  /\ UNCHANGED << boVars, libVars >>


\* HandleEnqueue: the request is put on the shared EnqueueBuffer and the
\* handler waits on respCh
HandleEnqueue(r, topic, priority, deliverAfter, ttl) ==
  /\ hPc[r] = "idle"
  /\ enqCh' = Append(enqCh, [req |-> r, topic |-> topic,
                             priority |-> priority,
                             deliverAfter |-> deliverAfter, ttl |-> ttl])
  /\ hPc' = [hPc EXCEPT ![r] = "wait"]
  /\ UNCHANGED << now, dbVars, repoErrs, acked, nacked, dwVars, pbVars,
                  cVars, ackCh, envIds, ewPc, ewReply, hResp, routed,
                  runVars >>
  /\ UNCHANGED << boVars, libVars >>

\* case <-ctx.Done() of HandleEnqueue: the caller stops waiting
HandleEnqueueTimeout(r) ==
  /\ hPc[r] = "wait"
  /\ hPc' = [hPc EXCEPT ![r] = "gone"]
  /\ UNCHANGED << now, dbVars, repoErrs, acked, nacked, dwVars, pbVars,
                  cVars, ackCh, envIds, enqCh, ewPc, ewReply, hResp, routed,
                  runVars >>
  /\ UNCHANGED << boVars, libVars >>

\* enqueueMessage: the reply for a request, and the table after Save
enqueueMessage(shard, rq, ok) ==
  IF ok
  THEN LET row == Save(shard, rq.topic, rq.priority, rq.deliverAfter, rq.ttl)
       IN [reply |-> [req |-> rq.req, err |-> FALSE, msgId |-> row.uid],
           log   |-> Append(msgLog, row @@ [req |-> rq.req]),
           rows  |-> rowIds \cup {Len(msgLog) + 1}]
  ELSE [reply |-> [req |-> rq.req, err |-> TRUE, msgId |-> << 0, 0 >>],
        log   |-> msgLog,
        rows  |-> rowIds]

\* case enqReq := <-w.buffer of the worker of shard s; ok = FALSE is a
\* failed Save
EnqueueRecv(s, ok) ==
  /\ ewPc[s] = "select"
  /\ EnqueueW(s) \notin stopped
  /\ enqCh # << >>
  /\ ok \/ repoErrs < MaxRepoErrors
  /\ LET r == enqueueMessage(s, Head(enqCh), ok)
     IN /\ msgLog' = r.log
        /\ rowIds' = r.rows
        /\ ewReply' = [ewReply EXCEPT ![s] = r.reply]
  /\ repoErrs' = IF ok THEN repoErrs ELSE repoErrs + 1
  /\ enqCh' = Tail(enqCh)
  /\ ewPc' = [ewPc EXCEPT ![s] = "reply"]
  /\ UNCHANGED << now, prefetched, acked, nacked, dwVars, pbVars, cVars,
                  ackCh, envIds, hPc, hResp, routed, runVars >>
  /\ UNCHANGED << boVars, libVars >>

\* case enqReq.RespCh <- reply: the handler is receiving
EnqueueReply(s) ==
  /\ ewPc[s] = "reply"
  /\ hPc[ewReply[s].req] = "wait"
  /\ hResp' = [hResp EXCEPT ![ewReply[s].req] = ewReply[s]]
  /\ hPc' = [hPc EXCEPT ![ewReply[s].req] = "done"]
  /\ ewReply' = [ewReply EXCEPT ![s] = NoEnqueueResponse]
  /\ ewPc' = [ewPc EXCEPT ![s] = "select"]
  /\ UNCHANGED << now, dbVars, repoErrs, acked, nacked, dwVars, pbVars,
                  cVars, ackCh, envIds, enqCh, routed, runVars >>
  /\ UNCHANGED << boVars, libVars >>

\* the reply is sent without a timer: the worker waits for the receiver
EnqueueReplyNoTimer(s) ==
  /\ ewPc[s] = "reply"
  /\ FALSE
  /\ UNCHANGED vars

\* case <-timer.C: nobody received within responseCommunicationTimeout,
\* the reply is discarded
EnqueueReplyTimeout(s) ==
  /\ ewPc[s] = "reply"
  /\ ewReply' = [ewReply EXCEPT ![s] = NoEnqueueResponse]
  /\ ewPc' = [ewPc EXCEPT ![s] = "select"]
  /\ UNCHANGED << now, dbVars, repoErrs, acked, nacked, dwVars, pbVars,
                  cVars, ackCh, envIds, enqCh, hPc, hResp, routed, runVars >>
  /\ UNCHANGED << boVars, libVars >>

\* ---- DequeueWorker.Run / dequeueMessages -------------------------------

\* the loop of Run returns when dequeueMessages returns an error
DequeueFindErrorReturns(w) ==
  /\ dwPc[w] = "select" /\ dwTimer[w] = 0
  /\ DequeueW(w) \notin stopped
  /\ repoErrs < MaxRepoErrors
  /\ repoErrs' = repoErrs + 1
  /\ topicBackoffs' = [topicBackoffs EXCEPT
        ![w] = excludedTopics(topicBackoffs[w]).backoffs]
  /\ dwBatch' = [dwBatch EXCEPT ![w] = << >>]
  /\ dwReply' = [dwReply EXCEPT ![w] = << >>]
  /\ dwTimer' = [dwTimer EXCEPT ![w] = After(loopBackoff[w])]
  /\ UNCHANGED << now, dbVars, acked, nacked, dwPc, loopBackoff, pbVars,
                  cVars, ackCh, envIds >>
  /\ stopped' = stopped \cup {DequeueW(w)}
  /\ UNCHANGED << ewVars, routed, stopReq >>
  /\ dwErr' = [dwErr EXCEPT ![w] = TRUE]
  /\ UNCHANGED << boVars, libVars >>

\* loopBackoff.After() fired; FindMessagesReadyForDelivery returns an error
DequeueFindError(w) ==
  /\ dwPc[w] = "select" /\ dwTimer[w] = 0
  /\ DequeueW(w) \notin stopped
  /\ repoErrs < MaxRepoErrors
  /\ repoErrs' = repoErrs + 1
  /\ topicBackoffs' = [topicBackoffs EXCEPT
        ![w] = excludedTopics(topicBackoffs[w]).backoffs]
  /\ dwBatch' = [dwBatch EXCEPT ![w] = << >>]
  /\ dwReply' = [dwReply EXCEPT ![w] = << >>]
  /\ dwTimer' = [dwTimer EXCEPT ![w] = After(loopBackoff[w])]
  /\ UNCHANGED << now, dbVars, acked, nacked, dwPc, loopBackoff, pbVars,
                  cVars, ackCh, envIds >>
  /\ UNCHANGED << ewVars, routed, runVars >>
  /\ dwErr' = [dwErr EXCEPT ![w] = TRUE]
  /\ UNCHANGED << boVars, libVars >>

\* loopBackoff.After() fired; the query succeeds; a non-empty batch is put
\* on the ingest channel of the buffer
DequeuePoll(w) ==
  /\ dwPc[w] = "select" /\ dwTimer[w] = 0
  /\ DequeueW(w) \notin stopped
  /\ LET ex == excludedTopics(topicBackoffs[w]) IN
     \E msgs \in FindMessagesReadyForDelivery(w, FALSE, ex.excludes,
                    MaxPrefetchItemCount, dequeueBatchSize) :
        /\ topicBackoffs' = [topicBackoffs EXCEPT ![w] = ex.backoffs]
        /\ dwBatch' = [dwBatch EXCEPT ![w] = msgs]
        /\ dwReply' = [dwReply EXCEPT ![w] = << >>]
        /\ IF Len(msgs) = 0
           THEN /\ loopBackoff' = [loopBackoff EXCEPT ![w] =
                      untimed(Backoff(@, backoffInitialDuration,
                                      backoffFactor, backoffMaxDuration))]
                /\ dwTimer' = [dwTimer EXCEPT ![w] = After(loopBackoff'[w])]
                /\ UNCHANGED << dwPc, ingestCh >>
           ELSE /\ loopBackoff' = [loopBackoff EXCEPT ![w] = untimed(Reset(@))]
                /\ ingestCh' = Append(ingestCh, w)
                /\ dwPc' = [dwPc EXCEPT ![w] = "ingest"]
                /\ UNCHANGED dwTimer
  /\ UNCHANGED << now, dbVars, repoErrs, acked, nacked, buffers, apiReqCh,
                  pbPc, pbReply, cVars, ackCh, envIds >>
  /\ UNCHANGED << ewVars, routed, runVars >>
  /\ dwErr' = [dwErr EXCEPT ![w] = FALSE]
  /\ UNCHANGED << boVars, libVars >>

\* the reply arrived: processPrefetchResponse, UpdatePrefetchedBatch, Commit.
\* ok = FALSE is a failed update (rolled back) or a failed Commit.
DequeueUpdate(w, ok) ==
  /\ dwPc[w] = "update"
  /\ LET r == processPrefetchResponse(dwBatch[w], dwReply[w],
                                      topicBackoffs[w])
     IN /\ topicBackoffs' = [topicBackoffs EXCEPT ![w] = r.backoffs]
        /\ IF ok
           THEN /\ prefetched' = UpdatePrefetchedBatch(r.fetchedIds, TRUE)
                /\ UNCHANGED repoErrs
           ELSE /\ repoErrs < MaxRepoErrors
                /\ repoErrs' = repoErrs + 1
                /\ UNCHANGED prefetched
  /\ dwPc' = [dwPc EXCEPT ![w] = "select"]
  /\ dwTimer' = [dwTimer EXCEPT ![w] = After(loopBackoff[w])]
  /\ UNCHANGED << now, msgLog, rowIds, acked, nacked, dwBatch, dwReply,
                  loopBackoff, pbVars, cVars, ackCh, envIds >>
  /\ UNCHANGED << ewVars, routed, runVars >>
  /\ dwErr' = [dwErr EXCEPT ![w] = ~ok]
  /\ UNCHANGED << boVars, libVars >>

\* ---- PriorityBuffer.serveLoop ------------------------------------------

\* ids of the messages of a sequence
idsOf(msgs) == { msgs[i].id : i \in 1..Len(msgs) }

\* case envelope := <-pb.ingestCh; the worker is waiting on RespCh
BufferIngest ==
  /\ pbPc = "select" /\ ingestCh # << >>
  /\ BufferW \notin stopped
  /\ LET w == Head(ingestCh)
         r == processIngest(buffers, dwBatch[w])
     IN /\ buffers' = r.buffers
        /\ dwReply' = [dwReply EXCEPT ![w] = r.reply]
        /\ dwPc' = [dwPc EXCEPT ![w] = "update"]
  /\ ingestCh' = Tail(ingestCh)
  /\ UNCHANGED << now, dbVars, repoErrs, acked, nacked, dwBatch,
                  dwTimer, loopBackoff, topicBackoffs, apiReqCh, pbPc,
                  pbReply, cVars, ackCh, envIds >>
  /\ UNCHANGED << ewVars, routed, runVars >>
  /\ UNCHANGED dwErr
  /\ UNCHANGED << boVars, libVars >>

\* case apiReq := <-pb.apiReqCh; a panic of processGetItems ends the loop
BufferGetItems ==
  /\ pbPc = "select" /\ apiReqCh # << >>
  /\ BufferW \notin stopped
  /\ LET req == Head(apiReqCh)
         r   == processGetItems(buffers, req.topic, req.limit)
     IN /\ buffers' = r.buffers
        /\ pbReply' = [c |-> req.c, msgs |-> r.msgs]
        /\ pbPc' = IF r.panic THEN "panic" ELSE "reply"
  /\ apiReqCh' = Tail(apiReqCh)
  /\ UNCHANGED << now, dbVars, repoErrs, acked, nacked, dwVars, ingestCh,
                  cVars, ackCh, envIds >>
  /\ UNCHANGED << ewVars, routed, runVars >>
  /\ UNCHANGED << boVars, libVars >>

\* case apiReq.replyCh <- *reply: the handler receives the messages
BufferDeliver ==
  /\ pbPc = "reply"
  /\ LET ids == { m.id : m \in Range(pbReply.msgs) }
     IN /\ cHeld' = [cHeld EXCEPT ![pbReply.c] = @ \cup ids]
        /\ nacked' = nacked \ ids
  /\ cPc' = [cPc EXCEPT ![pbReply.c] = "idle"]
  /\ pbPc' = "select"
  /\ pbReply' = NoReply
  /\ UNCHANGED << now, dbVars, repoErrs, acked, dwVars, buffers, ingestCh,
                  apiReqCh, ackCh, envIds >>
  /\ UNCHANGED << ewVars, routed, runVars >>
  /\ UNCHANGED << boVars, libVars >>

\* the reply is sent without a timeout: the loop waits for the receiver
BufferDropNoTimer ==
  /\ pbPc = "reply"
  /\ FALSE
  /\ UNCHANGED vars

\* case <-time.After(responseCommunicationTimeout): the reply is dropped and
\* nothing is ever sent on the handler's reply channel
BufferDrop ==
  /\ pbPc = "reply"
  /\ pbPc' = "select"
  /\ pbReply' = NoReply
  /\ droppedIds' = droppedIds \cup idsOf(pbReply.msgs)
  /\ UNCHANGED << now, dbVars, repoErrs, acked, nacked, dwVars, buffers,
                  ingestCh, apiReqCh, cVars, ackCh, envIds >>
  /\ UNCHANGED << ewVars, routed, runVars >>
  /\ UNCHANGED << boVars, uuVars, hdVars, httpVars, smVars, ocVars >>

\* ---- HTTP handlers -----------------------------------------------------

\* AckNackRouter.routes after createApp: RegisterWorker(shard.Id, ackNackW)
\* for every shard; the worker's buffer is known by the shard id
routes == [s \in Shards |-> s]

\* every request goes to the worker of the main shard
RouteToMainShard(uid, req, chans) ==
  [err |-> FALSE, chans |-> [chans EXCEPT ![1] = Append(@, req)]]

\* Route: the channels after the call, and whether it returned an error
Route(uid, req, chans) ==
  IF ShardId(uid) \in DOMAIN routes
  THEN [err   |-> FALSE,
        chans |-> [chans EXCEPT ![routes[ShardId(uid)]] = Append(@, req)]]
  ELSE [err |-> TRUE, chans |-> chans]

\* limit of a dequeue request; 0 asks for the default
Limits == {0, 1}

\* HandleDequeue: DequeueBuffer.GetItems(r), then wait on the reply channel
HandleDequeue(c, topic, limit) ==
  /\ cPc[c] = "idle"
  /\ apiReqCh' = Append(apiReqCh, [c |-> c, topic |-> topic, limit |-> limit])
  /\ cPc' = [cPc EXCEPT ![c] = "wait"]
  /\ UNCHANGED << now, dbVars, repoErrs, acked, nacked, dwVars, buffers,
                  ingestCh, pbPc, pbReply, cHeld, ackCh, envIds >>
  /\ UNCHANGED << ewVars, routed, runVars >>
  /\ UNCHANGED << boVars, libVars >>

\* HandleAckNack for a message the consumer received: AckNackRouter.Route
HandleAckNack(c, id, ack) ==
  /\ id \in cHeld[c]
  /\ cHeld' = [cHeld EXCEPT ![c] = @ \ {id}]
  /\ ackCh' = Route(uidOf(id), [id |-> uidOf(id), ack |-> ack], ackCh).chans
  /\ UNCHANGED << now, dbVars, repoErrs, acked, nacked, dwVars, pbVars, cPc,
                  envIds >>
  /\ UNCHANGED << ewVars, routed, runVars >>
  /\ UNCHANGED << boVars, libVars >>

\* a shard id no worker is registered for
UnknownShard == 3

\* ids a client can send: ParseUUID accepts any shard id and XID
ClientUUIDs == (Shards \cup {UnknownShard}) \X (1..MaxRouteMsgs)

\* HandleAckNack for one entry of the request body, whatever id it names
HandleAckNackOf(uid, ack) ==
  /\ \A s \in Shards : Len(ackCh[s]) < MaxRouted
  /\ LET r == Route(uid, [id |-> uid, ack |-> ack], ackCh)
     IN /\ ackCh' = r.chans
        /\ routed' = [uid |-> uid, err |-> r.err]
  /\ UNCHANGED << now, dbVars, repoErrs, acked, nacked, dwVars, pbVars,
                  cVars, envIds, ewVars, runVars >>
  /\ UNCHANGED << boVars, libVars >>

\* ---- AckNackWorker.Run -------------------------------------------------

AckNackWorker(s, ok) ==
  /\ ackCh[s] # << >>
  /\ AckNackW(s) \notin stopped
  /\ LET req == Head(ackCh[s])
         r   == AckNack(s, req.id, req.ack)
         \* the request names a row this shard has saved
         own == /\ XID(req.id) \in DOMAIN msgLog
                /\ uidOf(XID(req.id)) = req.id
                /\ msgLog[XID(req.id)].shard = s
     IN /\ IF ok
           THEN /\ rowIds' = r.rows
                /\ prefetched' = r.prefetched
                /\ acked' = IF req.ack /\ own THEN acked \cup {XID(req.id)}
                            ELSE acked
                /\ nacked' = IF ~req.ack /\ own /\ XID(req.id) \in rowIds
                             THEN nacked \cup {XID(req.id)}
                             ELSE nacked
                /\ UNCHANGED repoErrs
           ELSE /\ repoErrs < MaxRepoErrors
                /\ repoErrs' = repoErrs + 1
                /\ UNCHANGED << rowIds, prefetched, acked, nacked >>
        /\ droppedIds' = IF ok /\ ~req.ack /\ own
                         THEN droppedIds \ {XID(req.id)}
                         ELSE droppedIds
  /\ ackCh' = [ackCh EXCEPT ![s] = Tail(@)]
  /\ UNCHANGED << now, msgLog, dwVars, pbVars, cVars, envIds >>
  /\ UNCHANGED << ewVars, routed, runVars >>
  /\ UNCHANGED << boVars, uuVars, hdVars, httpVars, smVars, ocVars >>

\* ---- Stop and the shutdown case of every runLoop -----------------------

\* Stop(): errCh is offered on the shutdown channel of a running worker
Stop(w) ==
  /\ w \notin stopReq \cup stopped
  /\ stopReq' = stopReq \cup {w}
  /\ UNCHANGED << now, dbVars, repoErrs, acked, nacked, dwVars, pbVars,
                  cVars, ackCh, envIds, ewVars, routed, stopped >>
  /\ UNCHANGED << boVars, libVars >>

\* case respCh := <-w.shutdown of EnqueueWorker.Run
EnqueueShutdown(s) ==
  /\ EnqueueW(s) \in stopReq
  /\ ewPc[s] = "select"
  /\ stopReq' = stopReq \ {EnqueueW(s)}
  /\ stopped' = stopped \cup {EnqueueW(s)}
  /\ UNCHANGED << now, dbVars, repoErrs, acked, nacked, dwVars, pbVars,
                  cVars, ackCh, envIds, ewVars, routed >>
  /\ UNCHANGED << boVars, libVars >>

\* case respCh := <-w.shutdown of DequeueWorker.Run
DequeueShutdown(w) ==
  /\ DequeueW(w) \in stopReq
  /\ dwPc[w] = "select"
  /\ stopReq' = stopReq \ {DequeueW(w)}
  /\ stopped' = stopped \cup {DequeueW(w)}
  /\ UNCHANGED << now, dbVars, repoErrs, acked, nacked, dwVars, pbVars,
                  cVars, ackCh, envIds, ewVars, routed >>
  /\ UNCHANGED << boVars, libVars >>

\* case respCh := <-w.shutdown of AckNackWorker.Run
AckNackShutdown(s) ==
  /\ AckNackW(s) \in stopReq
  /\ stopReq' = stopReq \ {AckNackW(s)}
  /\ stopped' = stopped \cup {AckNackW(s)}
  /\ UNCHANGED << now, dbVars, repoErrs, acked, nacked, dwVars, pbVars,
                  cVars, ackCh, envIds, ewVars, routed >>
  /\ UNCHANGED << boVars, libVars >>

\* case respCh := <-pb.shutdown of serveLoop; cleanup drops the heaps
BufferShutdown ==
  /\ BufferW \in stopReq
  /\ pbPc = "select"
  /\ stopReq' = stopReq \ {BufferW}
  /\ stopped' = stopped \cup {BufferW}
  /\ buffers' = << >>
  /\ UNCHANGED << now, dbVars, repoErrs, acked, nacked, dwVars, ingestCh,
                  apiReqCh, pbPc, pbReply, cVars, ackCh, envIds, ewVars,
                  routed >>
  /\ UNCHANGED << boVars, libVars >>

\* ---- Spec: shard 1, one topic, no repository failure -------------------
\* The clock reads MaxTime from the start, so a row saved with
\* DeliverAfter = 0 and TTL = 1 is ready at once and stays unexpired.  Every
\* reply of the buffer reaches its handler.

Init == InitAt(MaxTime)

Next ==
  \/ Tick
  \/ Enqueue(1, 1, 1, 0, 1, MaxMsgs)
  \/ DequeuePoll(1)
  \/ DequeueUpdate(1, TRUE)
  \/ BufferIngest
  \/ BufferGetItems
  \/ BufferDeliver
  \/ \E c \in Consumers, l \in Limits : HandleDequeue(c, 1, l)
  \/ \E c \in Consumers, id \in 1..MaxMsgs, a \in BOOLEAN :
        HandleAckNack(c, id, a)
  \/ AckNackWorker(1, TRUE)

Spec == Init /\ [][Next]_vars

\* ---- SpecShards: both shards share the buffer ---------------------------
\* Every dequeue request asks for the default number of messages.

NextShards ==
  \/ Tick
  \/ \E s \in Shards : Enqueue(s, 1, 1, 0, 1, MaxShardMsgs)
  \/ \E w \in Shards : DequeuePoll(w)
  \/ \E w \in Shards : DequeueUpdate(w, TRUE)
  \/ BufferIngest
  \/ BufferGetItems
  \/ BufferDeliver
  \/ \E c \in Consumers : HandleDequeue(c, 1, 0)
  \/ \E c \in Consumers, id \in 1..MaxShardMsgs, a \in BOOLEAN :
        HandleAckNack(c, id, a)
  \/ \E s \in Shards : AckNackWorker(s, TRUE)

SpecShards == Init /\ [][NextShards]_vars

\* ---- SpecFaulty: shard 1 with failing repository calls and dropped ------
\* replies

NextFaulty ==
  \/ Tick
  \/ Enqueue(1, 1, 1, 0, 1, MaxFaultyMsgs)
  \/ repoErrs < MaxFaultyErrors /\ DequeueFindError(1)
  \/ DequeuePoll(1)
  \/ \E ok \in BOOLEAN :
        (ok \/ repoErrs < MaxFaultyErrors) /\ DequeueUpdate(1, ok)
  \/ BufferIngest
  \/ BufferGetItems
  \/ BufferDeliver
  \/ BufferDrop
  \/ \E c \in Consumers, l \in Limits : HandleDequeue(c, 1, l)
  \/ \E c \in Consumers, id \in 1..MaxFaultyMsgs, a \in BOOLEAN :
        HandleAckNack(c, id, a)
  \/ \E ok \in BOOLEAN :
        (ok \/ repoErrs < MaxFaultyErrors) /\ AckNackWorker(1, ok)

SpecFaulty == Init /\ [][NextFaulty]_vars

\* ---- SpecTimed: shard 1, rows with every DeliverAfter and TTL, the clock -
\* starting at 0

InitTimed == InitAt(0)

NextTimed ==
  \/ Tick
  \/ \E d \in 0..MaxDelay, ttl \in 0..MaxTTL :
        Enqueue(1, 1, 1, d, ttl, MaxTimedMsgs)
  \/ DequeuePoll(1)
  \/ DequeueUpdate(1, TRUE)
  \/ BufferIngest
  \/ BufferGetItems
  \/ BufferDeliver
  \/ \E c \in Consumers, l \in Limits : HandleDequeue(c, 1, l)
  \/ \E c \in Consumers, id \in 1..MaxTimedMsgs, a \in BOOLEAN :
        HandleAckNack(c, id, a)
  \/ AckNackWorker(1, TRUE)

SpecTimed == InitTimed /\ [][NextTimed]_vars

\* ---- SpecBuffer: the priority buffer under arbitrary ingest envelopes ---
\* The dequeue workers are replaced by senders of arbitrary batches; the
\* serveLoop actions are the ones above.

\* the messages a batch can be made of, ids counting up from envIds
EnvBatches ==
  UNION { { [i \in 1..n |-> [id |-> envIds + i, topic |-> tp[i][1],
                             priority |-> tp[i][2]]] :
              tp \in [1..n -> Topics \X Priorities] } :
          n \in 1..Min(MaxBatch, MaxEnvMsgs - envIds) }

\* w.prefetchBuf.C() <- envelope
OfferBatch(w, batch) ==
  /\ dwPc[w] = "select"
  /\ dwBatch' = [dwBatch EXCEPT ![w] = batch]
  /\ dwReply' = [dwReply EXCEPT ![w] = << >>]
  /\ ingestCh' = Append(ingestCh, w)
  /\ dwPc' = [dwPc EXCEPT ![w] = "ingest"]
  /\ envIds' = envIds + Len(batch)
  /\ UNCHANGED << now, dbVars, repoErrs, acked, nacked, dwTimer, loopBackoff,
                  topicBackoffs, buffers, apiReqCh, pbPc, pbReply, cVars,
                  ackCh >>
  /\ UNCHANGED << ewVars, routed, runVars >>
  /\ UNCHANGED dwErr
  /\ UNCHANGED << boVars, libVars >>

\* reply := <-replyCh
TakeReply(w) ==
  /\ dwPc[w] = "update"
  /\ dwPc' = [dwPc EXCEPT ![w] = "select"]
  /\ UNCHANGED << now, dbVars, repoErrs, acked, nacked, dwBatch, dwReply,
                  dwTimer, loopBackoff, topicBackoffs, pbVars, cVars, ackCh,
                  envIds >>
  /\ UNCHANGED << ewVars, routed, runVars >>
  /\ UNCHANGED dwErr
  /\ UNCHANGED << boVars, libVars >>

NextBuffer ==
  \/ \E w \in Shards : \E batch \in EnvBatches : OfferBatch(w, batch)
  \/ \E w \in Shards : TakeReply(w)
  \/ BufferIngest
  \/ BufferGetItems
  \/ BufferDeliver
  \/ BufferDrop
  \/ \E c \in Consumers, t \in Topics, l \in Limits : HandleDequeue(c, t, l)

SpecBuffer == Init /\ [][NextBuffer]_vars

\* ---- SpecFair: shard 1 under fair scheduling ----------------------------
\* Rows of both topics, a consumer that polls topic 1 only and may ACK or
\* NACK what it received, no repository failure, no dropped reply.

\* Run's timer case: once the timer of worker 1 has fired the worker polls
\* before the next tick (a poll is short against backoffInitialDuration)
TickFair ==
  /\ ~(dwPc[1] = "select" /\ dwTimer[1] = 0)
  /\ Tick

NextFair ==
  \/ TickFair
  \/ \E t \in Topics : Enqueue(1, t, 1, 0, 1, MaxFairMsgs)
  \/ DequeuePoll(1)
  \/ DequeueUpdate(1, TRUE)
  \/ BufferIngest
  \/ BufferGetItems
  \/ BufferDeliver
  \/ \E c \in Consumers : HandleDequeue(c, 1, 0)
  \/ \E c \in Consumers, id \in 1..MaxFairMsgs, a \in BOOLEAN :
        HandleAckNack(c, id, a)
  \/ AckNackWorker(1, TRUE)

\* Every goroutine keeps running and the handler polls again after each
\* reply: weak fairness.  serveLoop's select picks among its ready cases at
\* random, so a case that is ready again and again is taken: strong
\* fairness.  Nothing forces a client to enqueue or to acknowledge.
FairScheduling ==
  /\ WF_vars(TickFair)
  /\ WF_vars(DequeuePoll(1))
  /\ WF_vars(DequeueUpdate(1, TRUE))
  /\ SF_vars(BufferIngest)
  /\ SF_vars(BufferGetItems)
  /\ WF_vars(BufferDeliver)
  /\ WF_vars(\E c \in Consumers : HandleDequeue(c, 1, 0))
  /\ WF_vars(AckNackWorker(1, TRUE))

SpecFair == Init /\ [][NextFair]_vars /\ FairScheduling

\* ---- SpecEnqueue: the enqueue workers of both shards on the shared ------
\* channel, with failing Save calls, callers that give up, and Stop

\* ---- SpecBackoff: one BackoffStrategy and the calls of its methods -------

\* wait.NewBackoff(base, factor, backoffCap)
NewBackoffOf(p) ==
  /\ bo' = NewBackoff
  /\ boParams' = p
  /\ boCalls' = 0
  /\ UNCHANGED << now, dbVars, repoErrs, acked, nacked, dwVars, pbVars,
                  cVars, ackCh, envIds, ewVars, routed, runVars >>
  /\ UNCHANGED libVars

BackoffCall ==
  /\ boCalls < MaxBackoffCalls
  /\ bo' = Backoff(bo, boParams.base, boParams.factor, boParams.cap)
  /\ boCalls' = boCalls + 1
  /\ UNCHANGED << now, dbVars, repoErrs, acked, nacked, dwVars, pbVars,
                  cVars, ackCh, envIds, ewVars, routed, runVars, boParams >>
  /\ UNCHANGED libVars

ResetCall ==
  /\ bo' = Reset(bo)
  /\ boCalls' = 0
  /\ UNCHANGED << now, dbVars, repoErrs, acked, nacked, dwVars, pbVars,
                  cVars, ackCh, envIds, ewVars, routed, runVars, boParams >>
  /\ UNCHANGED libVars

\* time passes: half of the remaining delay, all of it, or more than that
Elapse ==
  /\ \E r \in { bo.remaining \div 2, 0, -1 } :
       /\ r < bo.remaining
       /\ bo' = [bo EXCEPT !.remaining = r]
  /\ UNCHANGED << now, dbVars, repoErrs, acked, nacked, dwVars, pbVars,
                  cVars, ackCh, envIds, ewVars, routed, runVars, boParams,
                  boCalls >>
  /\ UNCHANGED libVars

NextBackoff ==
  \/ \E p \in BackoffParams : NewBackoffOf(p)
  \/ BackoffCall
  \/ ResetCall
  \/ Elapse

SpecBackoff == Init /\ [][NextBackoff]_vars

\* ---- SpecTopics: shard 1, rows of both topics, a consumer of topic 1 ------

NextTopics ==
  \/ Tick
  \/ \E t \in Topics : Enqueue(1, t, 1, 0, 1, MaxTopicMsgs)
  \/ DequeueFindError(1)
  \/ DequeuePoll(1)
  \/ DequeueUpdate(1, TRUE)
  \/ BufferIngest
  \/ BufferGetItems
  \/ BufferDeliver
  \/ \E c \in Consumers : HandleDequeue(c, 1, 0)

SpecTopics == Init /\ [][NextTopics]_vars

\* ---- SpecRoute: acknowledgements for arbitrary ids -----------------------

NextRoute ==
  \/ \E s \in Shards : Enqueue(s, 1, 1, 0, 1, MaxRouteMsgs)
  \/ \E uid \in ClientUUIDs, a \in BOOLEAN : HandleAckNackOf(uid, a)
  \/ \E s \in Shards : AckNackWorker(s, TRUE)

SpecRoute == Init /\ [][NextRoute]_vars

\* requests are numbered in the order they reach the channel
NextRequest(r) == \A q \in 1..(r - 1) : hPc[q] # "idle"

NextEnqueue ==
  \/ \E r \in EnqueueRequests : NextRequest(r) /\ HandleEnqueue(r, 1, 1, 0, 1)
  \/ \E r \in EnqueueRequests : HandleEnqueueTimeout(r)
  \/ \E s \in Shards, ok \in BOOLEAN : EnqueueRecv(s, ok)
  \/ \E s \in Shards : EnqueueReply(s)
  \/ \E s \in Shards : EnqueueReplyTimeout(s)
  \/ \E s \in Shards : Stop(EnqueueW(s))
  \/ \E s \in Shards : EnqueueShutdown(s)

SpecEnqueue == Init /\ [][NextEnqueue]_vars

\* ---- SpecDrop: the serveLoop with dropped replies and Stop ---------------
\* Worker 1 offers batches of topic 1; the handlers are numbered in the order
\* of their GetItems calls.

DropBatches ==
  UNION { { [i \in 1..n |-> [id |-> envIds + i, topic |-> 1,
                             priority |-> pr[i]]] :
              pr \in [1..n -> Priorities] } :
          n \in 1..(MaxDropMsgs - envIds) }

NextDrop ==
  \/ \E batch \in DropBatches : OfferBatch(1, batch)
  \/ TakeReply(1)
  \/ BufferIngest
  \/ BufferGetItems
  \/ BufferDeliver
  \/ BufferDrop
  \/ \E c \in DequeueHandlers :
        /\ \A d \in 1..(c - 1) : cPc[d] # "idle" \/ cHeld[d] # {}
        /\ HandleDequeue(c, 1, 0)
  \/ Stop(BufferW)
  \/ BufferShutdown

SpecDrop == Init /\ [][NextDrop]_vars

\* ---- SpecShutdown: the application until App.Run has returned ------------

\* the workers in the order createApp adds them
RECURSIVE workersOf(_)
workersOf(shards) ==
  IF shards = << >> THEN << BufferW >>
  ELSE LET s == shards[Len(shards)]
       IN workersOf(SubSeq(shards, 1, Len(shards) - 1))
            \o << EnqueueW(s), DequeueW(s), AckNackW(s) >>

\* the priority buffer is added after the workers of the shards
workersBufferLast == Tail(workersOf(<< 1, 2 >>)) \o << BufferW >>

workers == workersOf(<< 1, 2 >>)

\* the cleanup function of the App: mgr.Close()
Cleanup == << "cleanup", 0 >>

\* the calls App.Run defers, in the order of the defer statements
deferred == << Cleanup >> \o workers

\* the deferred calls that have been made
called == stopReq \cup stopped

\* the calls made in any order, as plain calls after Serve would allow
AppDeferUnordered(k) ==
  /\ deferred[k] \notin called
  /\ IF deferred[k] = Cleanup
     THEN /\ stopped' = stopped \cup {Cleanup}
          /\ UNCHANGED << now, dbVars, repoErrs, acked, nacked, dwVars,
                          pbVars, cVars, ackCh, envIds, ewVars, routed,
                          stopReq, boVars, libVars >>
     ELSE Stop(deferred[k])

\* App.Run returns: the deferred calls run last in, first out, each after
\* the one before it has returned
AppDefer(k) ==
  /\ deferred[k] \notin called
  /\ \A j \in (k + 1)..Len(deferred) : deferred[j] \in stopped
  /\ IF deferred[k] = Cleanup
     THEN /\ stopped' = stopped \cup {Cleanup}
          /\ UNCHANGED << now, dbVars, repoErrs, acked, nacked, dwVars,
                          pbVars, cVars, ackCh, envIds, ewVars, routed,
                          stopReq, boVars, libVars >>
     ELSE Stop(deferred[k])

NextShutdown ==
  \/ Tick
  \/ \E r \in 1..MaxStopReqs : NextRequest(r) /\ HandleEnqueue(r, 1, 1, 0, 1)
  \/ \E r \in 1..MaxStopReqs : HandleEnqueueTimeout(r)
  \/ \E s \in Shards : EnqueueRecv(s, TRUE)
  \/ \E s \in Shards : EnqueueReply(s)
  \/ \E s \in Shards : EnqueueReplyTimeout(s)
  \/ \E w \in Shards : DequeuePoll(w)
  \/ \E w \in Shards : DequeueUpdate(w, TRUE)
  \/ BufferIngest
  \/ BufferGetItems
  \/ BufferDeliver
  \/ BufferDrop
  \/ \E c \in Consumers : HandleDequeue(c, 1, 0)
  \/ \E c \in Consumers, id \in 1..MaxStopReqs, a \in BOOLEAN :
        HandleAckNack(c, id, a)
  \/ \E s \in Shards : AckNackWorker(s, TRUE)
  \/ \E k \in DOMAIN deferred : AppDefer(k)
  \/ \E s \in Shards : EnqueueShutdown(s)
  \/ \E w \in Shards : DequeueShutdown(w)
  \/ \E s \in Shards : AckNackShutdown(s)
  \/ BufferShutdown

\* Every goroutine keeps running: a worker that is sending a reply gets it
\* received or its timer fires, a worker whose reply has arrived goes on, and
\* App.Run makes its next deferred call.  A select picks among its ready
\* cases at random, so the ingest case of serveLoop and the shutdown case of
\* every loop, ready again and again, are taken: strong fairness.  Nothing
\* forces a client to send a request.
FairShutdown ==
  /\ WF_vars(Tick)
  /\ WF_vars(\E s \in Shards : EnqueueReply(s) \/ EnqueueReplyTimeout(s))
  /\ WF_vars(\E w \in Shards : DequeueUpdate(w, TRUE))
  /\ SF_vars(BufferIngest)
  /\ WF_vars(BufferDeliver \/ BufferDrop)
  /\ SF_vars(\/ \E s \in Shards : \/ EnqueueShutdown(s)
                                  \/ DequeueShutdown(s)
                                  \/ AckNackShutdown(s)
             \/ BufferShutdown)
  /\ WF_vars(\E k \in DOMAIN deferred : AppDefer(k))

SpecShutdown == Init /\ [][NextShutdown]_vars /\ FairShutdown

\* ---- SpecDrain: the shutdown of SpecShutdown, where the handlers accept
\* no request once App.Run has begun to stop the workers, so a request in a
\* channel was accepted before every Stop.

NextDrain ==
  \/ Tick
  \/ \E r \in 1..MaxStopReqs :
        called = {} /\ NextRequest(r) /\ HandleEnqueue(r, 1, 1, 0, 1)
  \/ \E r \in 1..MaxStopReqs : HandleEnqueueTimeout(r)
  \/ \E s \in Shards : EnqueueRecv(s, TRUE)
  \/ \E s \in Shards : EnqueueReply(s)
  \/ \E s \in Shards : EnqueueReplyTimeout(s)
  \/ \E w \in Shards : DequeuePoll(w)
  \/ \E w \in Shards : DequeueUpdate(w, TRUE)
  \/ BufferIngest
  \/ BufferGetItems
  \/ BufferDeliver
  \/ BufferDrop
  \/ \E c \in Consumers : called = {} /\ HandleDequeue(c, 1, 0)
  \/ \E c \in Consumers, id \in 1..MaxStopReqs, a \in BOOLEAN :
        called = {} /\ HandleAckNack(c, id, a)
  \/ \E s \in Shards : AckNackWorker(s, TRUE)
  \/ \E k \in DOMAIN deferred : AppDefer(k)
  \/ \E s \in Shards : EnqueueShutdown(s)
  \/ \E w \in Shards : DequeueShutdown(w)
  \/ \E s \in Shards : AckNackShutdown(s)
  \/ BufferShutdown

SpecDrain == Init /\ [][NextDrain]_vars

\* ---- SpecPriority: messages of distinct priorities on one topic, saved
\* in either shard; the consumer asks once all of them are saved, with a
\* limit that covers them.

NextPriority ==
  \/ Tick
  \/ \E s \in Shards, p \in Priorities :
        /\ \A id \in DOMAIN msgLog : msgLog[id].priority # p
        /\ Enqueue(s, 1, p, 0, 1, MaxPrioMsgs)
  \/ \E w \in Shards : DequeuePoll(w)
  \/ \E w \in Shards : DequeueUpdate(w, TRUE)
  \/ BufferIngest
  \/ BufferGetItems
  \/ BufferDeliver
  \/ \E c \in Consumers :
        Len(msgLog) = MaxPrioMsgs /\ HandleDequeue(c, 1, MaxPrioMsgs)

SpecPriority == Init /\ [][NextPriority]_vars

\* ---- SpecErrors: the three workers of shard 1 with failing repository ----
\* calls; clients acknowledge the first row whether or not they hold it, one
\* request at a time; App.Run stops the workers one after the other, the
\* last one added first

Workers1 == { EnqueueW(1), DequeueW(1), AckNackW(1) }

NextErrors ==
  \/ Tick
  \/ \E r \in 1..MaxErrorReqs : NextRequest(r) /\ HandleEnqueue(r, 1, 1, 0, 1)
  \/ \E ok \in BOOLEAN : EnqueueRecv(1, ok)
  \/ EnqueueReply(1)
  \/ DequeueFindError(1)
  \/ DequeuePoll(1)
  \/ \E ok \in BOOLEAN : DequeueUpdate(1, ok)
  \/ BufferIngest
  \/ \E a \in BOOLEAN : ackCh[1] = << >> /\ HandleAckNackOf(NewUUID(1, 1), a)
  \/ \E ok \in BOOLEAN : AckNackWorker(1, ok)
  \/ Stop(AckNackW(1))
  \/ AckNackW(1) \in stopped /\ Stop(DequeueW(1))
  \/ DequeueW(1) \in stopped /\ Stop(EnqueueW(1))
  \/ EnqueueShutdown(1)
  \/ DequeueShutdown(1)
  \/ AckNackShutdown(1)

SpecErrors == Init /\ [][NextErrors]_vars

\* ---- domain.UUID: its bytes, String and ParseUUID ------------------------
\* A string is the sequence of its characters.  The sizes are scaled down:
\* a byte has ByteBits bits, the shard id takes ShardBytes bytes and the XID
\* XidBytes bytes, and xid encodes CharBits bits in every character.

ByteBits    == 2    \* 8 in the source
ShardBytes  == 2    \* 4 in the source: uid[:4]
XidBytes    == 2    \* 12 in the source: uid[4:]
CharBits    == 3    \* 5 in xid: base32
encodedLen  == 2    \* 20 in xid
IntBits     == 6    \* strconv.IntSize, 64 where int has 64 bits

RECURSIVE pow2(_)
pow2(n) == IF n = 0 THEN 1 ELSE 2 * pow2(n - 1)

Bytes == 0..(pow2(ByteBits) - 1)
ShardBits == ByteBits * ShardBytes
\* the values of uint32
ShardIds == 0..(pow2(ShardBits) - 1)

\* the bits of n, most significant first, in w bits
bitsOf(n, w) == [i \in 1..w |-> (n \div pow2(w - i)) % 2]

RECURSIVE numOf(_)
numOf(bits) ==
  IF bits = << >> THEN 0
  ELSE 2 * numOf(SubSeq(bits, 1, Len(bits) - 1)) + bits[Len(bits)]

RECURSIVE concat(_)
concat(seqs) == IF seqs = << >> THEN << >> ELSE Head(seqs) \o concat(Tail(seqs))

\* the bytes of v, least significant first
PutUint32LittleEndian(v) ==
  [i \in 1..ShardBytes |-> (v \div pow2(ByteBits * (i - 1))) % pow2(ByteBits)]

\* binary.BigEndian.PutUint32: the bytes of v, most significant first
PutUint32(v) ==
  [i \in 1..ShardBytes |-> (v \div pow2(ByteBits * (ShardBytes - i))) % pow2(ByteBits)]

\* binary.BigEndian.Uint32
Uint32(b) == numOf(concat([i \in 1..Len(b) |-> bitsOf(b[i], ByteBits)]))

\* the values of xid.ID: XidBytes bytes
XIDs == [1..XidBytes -> Bytes]

\* the alphabet of xid: digits, then lower-case letters
encoding == << "0", "1", "2", "3", "a", "b", "c", "d" >>

\* xid's dec table: the value of a character, 255 if it is not in the alphabet
dec(c) ==
  IF \E i \in DOMAIN encoding : encoding[i] = c
  THEN (CHOOSE i \in DOMAIN encoding : encoding[i] = c) - 1
  ELSE 255

\* xid.ID.String(): the bits of the id, padded with zero bits, CharBits bits
\* to a character
encode(id) ==
  LET bits   == concat([i \in 1..Len(id) |-> bitsOf(id[i], ByteBits)])
      padded == bits \o [i \in 1..(encodedLen * CharBits - Len(bits)) |-> 0]
  IN [k \in 1..encodedLen |->
        encoding[numOf(SubSeq(padded, (k - 1) * CharBits + 1, k * CharBits)) + 1]]

\* xid.FromString (UnmarshalText): the length, the alphabet, the decoded bytes
\* and the comparison that rejects a last character with bits beyond the id
FromString(src) ==
  IF Len(src) # encodedLen THEN [err |-> TRUE, id |-> << >>]
  ELSE IF \E k \in 1..Len(src) : dec(src[k]) = 255
       THEN [err |-> TRUE, id |-> << >>]
  ELSE LET bits == concat([k \in 1..encodedLen |-> bitsOf(dec(src[k]), CharBits)])
           id   == [i \in 1..XidBytes |->
                      numOf(SubSeq(bits, (i - 1) * ByteBits + 1, i * ByteBits))]
       IN IF encode(id)[encodedLen] # src[encodedLen]
          THEN [err |-> TRUE, id |-> << >>]
          ELSE [err |-> FALSE, id |-> id]

\* NewUUID(shardId), with x the bytes xid.New() returns
NewUUIDBytes(shardId, x) == PutUint32(shardId) \o x

\* UUID.ShardId and UUID.XID on the bytes
ShardIdBytes(u) == Uint32(SubSeq(u, 1, ShardBytes))
XIDBytes(u) == SubSeq(u, ShardBytes + 1, Len(u))

digits == << "0", "1", "2", "3", "4", "5", "6", "7", "8", "9" >>

isDigit(c) == \E i \in DOMAIN digits : digits[i] = c

digitVal(c) == (CHOOSE i \in DOMAIN digits : digits[i] = c) - 1

\* the verb %d of fmt.Sprintf for an unsigned value
RECURSIVE decimal(_)
decimal(n) ==
  IF n < 10 THEN << digits[n + 1] >>
  ELSE decimal(n \div 10) \o << digits[(n % 10) + 1] >>

\* UUID.String
String(u) == decimal(ShardIdBytes(u)) \o << "-" >> \o encode(XIDBytes(u))

\* strings.Split(v, sep): the pieces of v between the separators
RECURSIVE Split(_, _)
Split(v, sep) ==
  IF \A i \in 1..Len(v) : v[i] # sep THEN << v >>
  ELSE LET i == CHOOSE j \in 1..Len(v) :
                  v[j] = sep /\ \A k \in 1..(j - 1) : v[k] # sep
       IN << SubSeq(v, 1, i - 1) >> \o Split(SubSeq(v, i + 1, Len(v)), sep)

RECURSIVE valueOf(_)
valueOf(ds) ==
  IF ds = << >> THEN 0
  ELSE 10 * valueOf(SubSeq(ds, 1, Len(ds) - 1)) + digitVal(ds[Len(ds)])

\* strconv.Atoi: an optional sign, then decimal digits only, at least one;
\* the value has to fit int
Atoi(str) ==
  LET signed == str # << >> /\ str[1] \in {"+", "-"}
      ds     == IF signed THEN Tail(str) ELSE str
      fail   == [err |-> TRUE, val |-> 0]
  IN IF ds = << >> \/ \E i \in 1..Len(ds) : ~isDigit(ds[i]) THEN fail
     ELSE LET n == IF signed /\ str[1] = "-" THEN 0 - valueOf(ds) ELSE valueOf(ds)
          IN IF n > pow2(IntBits - 1) - 1 \/ n < 0 - pow2(IntBits - 1) THEN fail
             ELSE [err |-> FALSE, val |-> n]

ErrInvalidUUIDFormat == [err |-> TRUE, uid |-> << >>]

\* domain.ParseUUID; uint32(sid) keeps the low bits of sid
ParseUUID(v) ==
  LET tokens == Split(v, "-")
  IN IF Len(tokens) # 2 THEN ErrInvalidUUIDFormat
     ELSE LET sid  == Atoi(tokens[1])
              xuid == FromString(tokens[2])
          IN IF sid.err THEN ErrInvalidUUIDFormat
             ELSE IF xuid.err THEN ErrInvalidUUIDFormat
             ELSE [err |-> FALSE,
                   uid |-> PutUint32(sid.val % pow2(ShardBits)) \o xuid.id]

\* ---- SpecUUID: ids made by NewUUID and formatted, strings a caller sends -----

MaxTextLen == 5     \* characters of a string a caller sends

\* the characters of a caller's string: digits, which are in xid's alphabet
\* too, a letter of that alphabet, and the sign and the separator, which are
\* not in it
Chars == { "0", "1", "3", "+", "-", "a" }

RECURSIVE TextsOfLen(_)
TextsOfLen(n) ==
  IF n = 0 THEN { << >> }
  ELSE { Append(t, c) : t \in TextsOfLen(n - 1), c \in Chars }

Texts == UNION { TextsOfLen(n) : n \in 0..MaxTextLen }

NewUUIDCall(shardId, x) ==
  /\ uuPc = "init"
  /\ uuid' = NewUUIDBytes(shardId, x)
  /\ uuPc' = "id"
  /\ UNCHANGED << text, parsed >>
  /\ UNCHANGED << now, dbVars, repoErrs, acked, nacked, dwVars, pbVars,
                  cVars, ackCh, envIds, ewVars, routed, runVars, boVars,
                  hdVars, httpVars, smVars, ocVars, droppedIds >>

StringCall ==
  /\ uuPc = "id"
  /\ text' = String(uuid)
  /\ uuPc' = "text"
  /\ UNCHANGED << uuid, parsed >>
  /\ UNCHANGED << now, dbVars, repoErrs, acked, nacked, dwVars, pbVars,
                  cVars, ackCh, envIds, ewVars, routed, runVars, boVars,
                  hdVars, httpVars, smVars, ocVars, droppedIds >>

\* a caller sends the string v
ReceiveText(v) ==
  /\ uuPc = "init"
  /\ text' = v
  /\ uuPc' = "text"
  /\ UNCHANGED << uuid, parsed >>
  /\ UNCHANGED << now, dbVars, repoErrs, acked, nacked, dwVars, pbVars,
                  cVars, ackCh, envIds, ewVars, routed, runVars, boVars,
                  hdVars, httpVars, smVars, ocVars, droppedIds >>

ParseUUIDCall ==
  /\ uuPc = "text"
  /\ parsed' = ParseUUID(text)
  /\ uuPc' = "parsed"
  /\ UNCHANGED << uuid, text >>
  /\ UNCHANGED << now, dbVars, repoErrs, acked, nacked, dwVars, pbVars,
                  cVars, ackCh, envIds, ewVars, routed, runVars, boVars,
                  hdVars, httpVars, smVars, ocVars, droppedIds >>

NextUUID ==
  \/ \E shardId \in ShardIds, x \in XIDs : NewUUIDCall(shardId, x)
  \/ StringCall
  \/ \E v \in Texts : ReceiveText(v)
  \/ ParseUUIDCall

SpecUUID == Init /\ [][NextUUID]_vars

\* ---- SpecDequeue: HandleDequeue with its deadline --------------------------
\* The handler's own backoff only spaces its GetItems calls; the model lets
\* the next call come at any time.

defaultDequeueTimeout == 2    \* 30 s, in ticks of the context's timer

\* timeoutSeconds of a request body, in ticks; 0 asks for the default
DequeueTimeouts == {0, 1}

\* HandleDequeue up to the loop: r.Timeout and context.WithTimeout
DequeueRequest(c, timeout) ==
  /\ cDeadline[c] = NoDeadline
  /\ cDeadline' = [cDeadline EXCEPT ![c] =
                     IF timeout = 0 THEN defaultDequeueTimeout ELSE timeout]
  /\ UNCHANGED << now, dbVars, repoErrs, acked, nacked, dwVars, pbVars,
                  cVars, ackCh, envIds, ewVars, routed, runVars, boVars,
                  uuVars, cStatus, httpVars, smVars, ocVars, droppedIds >>

\* case <-backoff.After(): GetItems puts the request on apiReqCh and the
\* handler receives on the channel it returns
DequeueGetItems(c) ==
  /\ cDeadline[c] # NoDeadline
  /\ cStatus[c] = 0
  /\ HandleDequeue(c, 1, 0)

\* the receive of the reply: an empty reply continues the loop, a reply with
\* messages is written as 200
DequeueReceive ==
  /\ pbPc = "reply"
  /\ cPc[pbReply.c] = "wait"
  /\ IF pbReply.msgs = << >>
     THEN UNCHANGED << cHeld, cStatus >>
     ELSE /\ cHeld' = [cHeld EXCEPT ![pbReply.c] =
                         @ \cup { m.id : m \in Range(pbReply.msgs) }]
          /\ cStatus' = [cStatus EXCEPT ![pbReply.c] = 200]
  /\ cPc' = [cPc EXCEPT ![pbReply.c] = "idle"]
  /\ pbPc' = "select"
  /\ pbReply' = NoReply
  /\ UNCHANGED << now, dbVars, repoErrs, acked, nacked, dwVars, buffers,
                  ingestCh, apiReqCh, ackCh, envIds, ewVars, routed, runVars,
                  boVars, uuVars, cDeadline, httpVars, smVars, ocVars, droppedIds >>

\* case <-ctx.Done(): 404 with an empty list
DequeueDeadline(c) ==
  /\ cPc[c] = "idle"
  /\ cStatus[c] = 0
  /\ cDeadline[c] = 0
  /\ cStatus' = [cStatus EXCEPT ![c] = 404]
  /\ UNCHANGED << now, dbVars, repoErrs, acked, nacked, dwVars, pbVars,
                  cVars, ackCh, envIds, ewVars, routed, runVars, boVars,
                  uuVars, cDeadline, httpVars, smVars, ocVars, droppedIds >>

\* the timers of the contexts run
DeadlineTick ==
  /\ \E c \in DequeueHandlers : cDeadline[c] > 0
  /\ cDeadline' = [c \in DequeueHandlers |->
                     IF cDeadline[c] > 0 THEN cDeadline[c] - 1 ELSE cDeadline[c]]
  /\ UNCHANGED << now, dbVars, repoErrs, acked, nacked, dwVars, pbVars,
                  cVars, ackCh, envIds, ewVars, routed, runVars, boVars,
                  uuVars, cStatus, httpVars, smVars, ocVars, droppedIds >>

NextDequeue ==
  \/ Tick
  \/ Enqueue(1, 1, 1, 0, 1, MaxDeqMsgs)
  \/ DequeuePoll(1)
  \/ DequeueUpdate(1, TRUE)
  \/ BufferIngest
  \/ BufferGetItems
  \/ BufferDrop
  \/ \E c \in Consumers, t \in DequeueTimeouts : DequeueRequest(c, t)
  \/ \E c \in Consumers : DequeueGetItems(c)
  \/ DequeueReceive
  \/ \E c \in Consumers : DequeueDeadline(c)
  \/ DeadlineTick
  \/ DequeueW(1) \in stopped /\ Stop(BufferW)
  \/ Stop(DequeueW(1))
  \/ DequeueShutdown(1)
  \/ BufferShutdown

SpecDequeue == Init /\ [][NextDequeue]_vars

\* ---- HandleEnqueue: the response to the worker's reply --------------------

\* err of HandleEnqueue once the namespace was found: the handler has
\* returned for every other value
NilError == "nil"

\* err.Error(): a call on the nil interface value panics
ErrorOf(err) == IF err = NilError THEN "panic" ELSE err

\* case resp := <-respCh of HandleEnqueue; a handler that panics writes
\* nothing (status 0) and net/http closes the connection
enqueueResponse(resp, err) ==
  IF resp.err
  THEN IF ErrorOf(err) = "panic"
       THEN [status |-> 0, body |-> "panic", msgId |-> << 0, 0 >>]
       ELSE [status |-> 500, body |-> ErrorOf(err), msgId |-> << 0, 0 >>]
  ELSE [status |-> 201, body |-> "created", msgId |-> resp.msgId]

\* ---- SpecInvalid: the handlers on the ids a caller sends -------------------
\* A run handles one HTTP request.

MaxIdLen == 3       \* characters of a malformed id (SpecInvalid)

\* the rows of the namespaces table of the main shard
Namespaces == { NewUUIDBytes(1, [i \in 1..XidBytes |-> 1]) }

\* what a caller sends as an id: short strings, which are all malformed, the
\* id of the namespace, an id no row has, and ids of shards with and without
\* a route
RequestIds ==
  UNION { TextsOfLen(n) : n \in 0..MaxIdLen }
    \cup { String(NewUUIDBytes(sh, [i \in 1..XidBytes |-> x])) :
             sh \in Shards \cup {UnknownShard}, x \in {1, 2} }

\* NamespaceRepository.CachedFindByStringId: the cache holds rows found before
CachedFindByStringId(id) ==
  LET p == ParseUUID(id)
  IN IF p.err THEN [err |-> "invalid UUID format"]
     ELSE IF p.uid \notin Namespaces THEN [err |-> "sql.ErrNoRows"]
     ELSE [err |-> NilError]

\* HandleEnqueue up to the send on EnqueueBuffer, for a body with this
\* namespace
HandleEnqueueNamespace(ns) ==
  /\ httpReq = NoRequest
  /\ httpReq' = [kind |-> "enqueue", id |-> ns]
  /\ LET r == CachedFindByStringId(ns)
     IN httpResp' =
          IF r.err = "sql.ErrNoRows"
          THEN [status |-> 404, body |-> "invalid namespace"]
          ELSE IF r.err # NilError
          THEN [status |-> 500, body |-> r.err]
          ELSE [status |-> 0, body |-> "enqueued"]
  /\ UNCHANGED << now, dbVars, repoErrs, acked, nacked, dwVars, pbVars,
                  cVars, ackCh, envIds, ewVars, routed, runVars, boVars,
                  uuVars, hdVars, smVars, ocVars, droppedIds >>

\* the id the workers see for the bytes u
pairOf(u) == << ShardIdBytes(u), Uint32(XIDBytes(u)) >>

\* HandleAckNack for a body with one entry; a handler that returns without
\* writing a response answers 200
HandleAckNackBody(id, ack) ==
  /\ httpReq = NoRequest
  /\ httpReq' = [kind |-> "ack", id |-> id]
  /\ LET p == ParseUUID(id)
     IN IF p.err
        THEN /\ httpResp' = [status |-> 200, body |-> "none"]
             /\ UNCHANGED << ackCh, routed >>
        ELSE LET r == Route(pairOf(p.uid),
                            [id |-> pairOf(p.uid), ack |-> ack], ackCh)
             IN /\ ackCh' = r.chans
                /\ routed' = [uid |-> pairOf(p.uid), err |-> r.err]
                /\ httpResp' = IF r.err
                               THEN [status |-> 500, body |-> "could not route"]
                               ELSE [status |-> 200, body |-> "none"]
  /\ UNCHANGED << now, dbVars, repoErrs, acked, nacked, dwVars, pbVars,
                  cVars, envIds, ewVars, runVars, boVars, uuVars, hdVars,
                  smVars, ocVars, droppedIds >>

NextInvalid ==
  \/ \E ns \in RequestIds : HandleEnqueueNamespace(ns)
  \/ \E id \in RequestIds, ack \in BOOLEAN : HandleAckNackBody(id, ack)
  \/ \E s \in Shards : AckNackWorker(s, TRUE)

SpecInvalid == Init /\ [][NextInvalid]_vars

\* ---- SpecShardManager: db.ShardManager under Add calls --------------------
\* A *ShardMeta is known by its place in m.shards.

\* Add: sql.Open may fail (ok = FALSE), initialize never does; the shard is
\* appended and the index entry of its id is set to it
Add(shardId, main, ok) ==
  /\ Len(smShards) < MaxAdds
  /\ IF ok
     THEN LET meta == [Id |-> shardId, main |-> main, at |-> Len(smShards) + 1]
          IN /\ smShards' = Append(smShards, meta)
             /\ smIndex' = [id \in DOMAIN smIndex \cup {shardId} |->
                              IF id = shardId THEN meta ELSE smIndex[id]]
     ELSE UNCHANGED << smShards, smIndex >>
  /\ UNCHANGED << now, dbVars, repoErrs, acked, nacked, dwVars, pbVars,
                  cVars, ackCh, envIds, ewVars, routed, runVars, boVars,
                  uuVars, hdVars, httpVars, ocVars, droppedIds >>

\* the nil *ShardMeta
NilShard == [Id |-> 0, main |-> FALSE, at |-> 0]

\* ShardManager.Get
Get(id) == IF id \in DOMAIN smIndex THEN smIndex[id] ELSE NilShard

\* ShardManager.MainShard: the first shard of the list that is main
MainShard ==
  IF \E i \in DOMAIN smShards : smShards[i].main
  THEN smShards[CHOOSE i \in DOMAIN smShards :
                  /\ smShards[i].main
                  /\ \A j \in 1..(i - 1) : ~smShards[j].main]
  ELSE NilShard

NextShardManager ==
  \E shardId \in Shards, main \in BOOLEAN, ok \in BOOLEAN : Add(shardId, main, ok)

SpecShardManager == Init /\ [][NextShardManager]_vars

\* ======================= properties ======================================

\* ids of the messages of a batch whose status in the reply is st
idsWithStatus(batch, reply, st) ==
  { batch[i].id : i \in { j \in 1..Len(reply) : reply[j] = st } }

\* C1: in the step of a dequeue worker that handles the reply of the buffer
\* (processPrefetchResponse, UpdatePrefetchedBatch, Commit), the rows that
\* become prefetched are rows whose status was OK, every row with status OK
\* that is still in the table is prefetched afterwards, and no row whose
\* status was BACKOFF becomes prefetched.
C1_OnlyOkIdsPrefetched ==
  [][ \A w \in Shards :
        (dwPc[w] = "update" /\ dwPc'[w] = "select") =>
          LET okIds  == idsWithStatus(dwBatch[w], dwReply[w], PrefetchStatusOk)
              boIds  == idsWithStatus(dwBatch[w], dwReply[w],
                                      PrefetchStatusBackoff)
          IN /\ prefetched' \ prefetched \subseteq okIds
             /\ okIds \cap rowIds \subseteq prefetched'
             /\ boIds \cap (prefetched' \ prefetched) = {}
             /\ prefetched \subseteq prefetched' ]_vars

\* a worker has just handled a reply holding both statuses: the OK row is
\* prefetched and the BACKOFF row is not
C1_Witness ==
  \E w \in Shards :
    /\ dwPc[w] = "select"
    /\ \E i, j \in 1..Len(dwReply[w]) :
         /\ dwReply[w][i] = PrefetchStatusOk
         /\ dwReply[w][j] = PrefetchStatusBackoff
         /\ dwBatch[w][i].id \in prefetched
         /\ dwBatch[w][j].id \in rowIds \ prefetched

\* C2: every per-topic heap of the buffer holds at most
\* MaxPrefetchItemCount messages, whatever envelopes and GetItems requests
\* the buffer has served.
C2_HeapBounded ==
  \A t \in DOMAIN buffers : Len(buffers[t]) <= MaxPrefetchItemCount

\* a heap is full and the buffer has just refused a message of its topic
C2_Witness ==
  \E w \in Shards :
    /\ dwPc[w] = "update"
    /\ \E i \in 1..Len(dwReply[w]) :
         /\ dwReply[w][i] = PrefetchStatusBackoff
         /\ Len(buffers[dwBatch[w][i].topic]) = MaxPrefetchItemCount

\* ids held by the heap of topic t (none when the topic has no heap)
heapIds(bufs, t) ==
  IF t \in DOMAIN bufs THEN { bufs[t][i].id : i \in 1..Len(bufs[t]) } ELSE {}

heapLen(bufs, t) == IF t \in DOMAIN bufs THEN Len(bufs[t]) ELSE 0

\* C3: when the buffer serves an ingest envelope with batch B, the reply has
\* Len(B) statuses; status i is OK iff the heap of B[i]'s topic, counting the
\* messages of B accepted before i, held fewer than MaxPrefetchItemCount
\* messages; exactly the OK messages are added to the heaps; and per topic
\* the number of OK is min(n, MaxPrefetchItemCount - k), all before the
\* BACKOFF of that topic.
C3_IngestReply ==
  [][ (pbPc = "select" /\ ingestCh # << >> /\ ingestCh' = Tail(ingestCh)) =>
        LET w     == Head(ingestCh)
            B     == dwBatch[w]
            reply == dwReply'[w]
            same(i) == { j \in 1..Len(B) : B[j].topic = B[i].topic }
            okBefore(i) == Cardinality({ j \in same(i) :
                             j < i /\ reply[j] = PrefetchStatusOk })
            room(t) == MaxPrefetchItemCount - heapLen(buffers, t)
        IN /\ Len(reply) = Len(B)
           /\ \A i \in 1..Len(B) :
                /\ reply[i] \in {PrefetchStatusOk, PrefetchStatusBackoff}
                /\ (reply[i] = PrefetchStatusOk) <=>
                     (heapLen(buffers, B[i].topic) + okBefore(i)
                        < MaxPrefetchItemCount)
                /\ okBefore(i) = Min(Cardinality({ j \in same(i) : j < i }),
                                     room(B[i].topic))
           /\ \A t \in Topics :
                /\ heapIds(buffers', t) = heapIds(buffers, t) \cup
                     { B[i].id : i \in { j \in 1..Len(B) :
                          B[j].topic = t /\ reply[j] = PrefetchStatusOk } }
                /\ heapLen(buffers', t) = Cardinality(heapIds(buffers', t))
                /\ LET n == Cardinality({ j \in 1..Len(B) : B[j].topic = t })
                   IN heapLen(buffers', t) - heapLen(buffers, t)
                        = Min(n, room(t)) ]_vars

\* three messages of one topic were sent to a heap with room for fewer: the
\* first were accepted, the last was refused
C3_Witness ==
  \E w \in Shards :
    /\ dwPc[w] = "update"
    /\ Len(dwBatch[w]) = MaxBatch
    /\ \A i \in 1..Len(dwBatch[w]) : dwBatch[w][i].topic = dwBatch[w][1].topic
    /\ dwReply[w][1] = PrefetchStatusOk
    /\ dwReply[w][Len(dwReply[w])] = PrefetchStatusBackoff

\* C4: the messages of one GetItems reply are in non-decreasing priority.
C4_ReplySorted ==
  pbPc = "reply" =>
    \A i \in 1..(Len(pbReply.msgs) - 1) :
      pbReply.msgs[i].priority <= pbReply.msgs[i + 1].priority

\* a reply holds two messages of different priority, the one pushed later
\* first
C4_Witness ==
  /\ pbPc = "reply"
  /\ Len(pbReply.msgs) >= 2
  /\ pbReply.msgs[1].priority < pbReply.msgs[2].priority
  /\ pbReply.msgs[1].id > pbReply.msgs[2].id

\* the row id is returned by a query of its shard's dequeue worker issued now
\* with no topic excluded
Deliverable(id) ==
  \E r \in FindMessagesReadyForDelivery(msgLog[id].shard, FALSE, {},
             MaxPrefetchItemCount, dequeueBatchSize) : id \in idsOf(r)

\* C5: no GetItems reply holds a message whose ExpiresAt (time of Save plus
\* TTL) has been reached when the buffer builds the reply.
C5_NoExpiredDelivery ==
  [][ (pbPc = "select" /\ pbPc' = "reply") =>
        \A id \in idsOf(pbReply'.msgs) :
          now < msgLog[id].savedAt + msgLog[id].ttl ]_vars

\* every message that a dequeue worker fetched, that waits in the buffer or
\* that was handed to a consumer had reached its ReadyAt (time of Save plus
\* DeliverAfter)
NotBeforeReadyAt ==
  \A id \in UNION { idsOf(dwBatch[w]) : w \in Shards }
            \cup UNION { heapIds(buffers, t) : t \in DOMAIN buffers }
            \cup idsOf(pbReply.msgs)
            \cup UNION { cHeld[c] : c \in Consumers } :
    msgLog[id].savedAt + msgLog[id].deliverAfter <= now

C7_NoDeliveryAfterAck ==
  [][ (pbPc = "select" /\ pbPc' = "reply") =>
        idsOf(pbReply'.msgs) \cap acked = {} ]_vars

\* C8: a query of a dequeue worker never returns a row for which
\* AckNack(shard, id, true) has returned nil.
C8_NoFindAfterAck ==
  [][ \A w \in Shards :
        (dwPc[w] = "select" /\ dwPc'[w] = "ingest") =>
          idsOf(dwBatch'[w]) \cap acked = {} ]_vars

\* a row was acked and the dequeue worker of its shard has since fetched
\* another row
C8_Witness ==
  \E id \in acked :
    /\ dwPc[msgLog[id].shard] = "ingest"
    /\ \E m \in idsOf(dwBatch[msgLog[id].shard]) : m > id

\* the places a message can reach a consumer from: a heap, a reply in
\* flight, the batch of a worker waiting for the buffer
inFlight(id) ==
  \/ \E t \in DOMAIN buffers : id \in heapIds(buffers, t)
  \/ id \in idsOf(pbReply.msgs)
  \/ \E w \in Shards : dwPc[w] = "ingest" /\ id \in idsOf(dwBatch[w])

\* C9: a row whose NACK the ack worker has processed, and that was not
\* delivered since, can be delivered again: it has prefetched = false, or it
\* is on its way to a consumer.
C9_NackedCanReturn ==
  \A id \in nacked : id \notin prefetched \/ inFlight(id)

\* a dequeue has returned the message: it is in a reply, held by a consumer,
\* acknowledged (request queued or processed)
Delivered(id) ==
  \/ id \in idsOf(pbReply.msgs)
  \/ \E c \in Consumers : id \in cHeld[c]
  \/ \E s \in Shards : \E k \in DOMAIN ackCh[s] : XID(ackCh[s][k].id) = id
  \/ id \in acked
  \/ id \in nacked

\* a saved message of the polled topic
Enqueued(id) == id \in DOMAIN msgLog /\ msgLog[id].topic = 1

\* a row of the polled topic that has not reached the buffer
Fresh(id) ==
  /\ id \in rowIds
  /\ msgLog[id].topic = 1
  /\ ~Delivered(id)
  /\ ~inFlight(id)

\* worker 1 has sent the message to the buffer in an ingest envelope
Offered(id) == dwPc[1] = "ingest" /\ id \in idsOf(dwBatch[1])

\* the ack worker of shard 1 processes a NACK
NackProcessed ==
  /\ ackCh[1] # << >>
  /\ ~Head(ackCh[1]).ack
  /\ ackCh' = [ackCh EXCEPT ![1] = Tail(@)]

\* no saved message of the polled topic stays unreturned for ever
ReturnedEventually ==
  \A id \in 1..MaxFairMsgs : []<>(Enqueued(id) => Delivered(id))

\* a returned message stays returned, and a row stops being fresh only in
\* an envelope of its worker: with ReturnedEventually, every fresh row is
\* eventually offered and every saved message is eventually returned
OfferedBeforeReturned ==
  [][\A id \in 1..MaxFairMsgs :
       /\ Delivered(id) => Delivered(id)'
       /\ Fresh(id) /\ ~Fresh(id)' => Offered(id)']_vars

rowsOf(r) == { id \in DOMAIN msgLog : msgLog[id].req = r }

\* places request r waits in or is being answered from
holdersOf(r) ==
  Cardinality({ k \in DOMAIN enqCh : enqCh[k].req = r })
    + Cardinality({ s \in Shards : ewReply[s].req = r })

\* C11: a request is on the channel or with one worker, never both and never
\* with two workers; it has at most one row; the id of a row carries the id
\* of the shard whose table holds it; a successful reply sent by the worker
\* of shard s, and received by the handler, carries the id of the one row of
\* its request, which is in shard s.
C11_OneShardPerMessage ==
  /\ \A r \in EnqueueRequests :
       /\ holdersOf(r) <= 1
       /\ Cardinality(rowsOf(r)) <= 1
       /\ hPc[r] = "idle" => holdersOf(r) = 0 /\ rowsOf(r) = {}
  /\ \A id \in DOMAIN msgLog : ShardId(uidOf(id)) = msgLog[id].shard
  /\ \A s \in Shards :
       ewReply[s].req # 0 /\ ~ewReply[s].err =>
         /\ ShardId(ewReply[s].msgId) = s
         /\ \E id \in rowsOf(ewReply[s].req) :
              uidOf(id) = ewReply[s].msgId /\ msgLog[id].shard = s
  /\ \A r \in EnqueueRequests :
       hPc[r] = "done" /\ ~hResp[r].err =>
         \E id \in rowsOf(r) :
           /\ uidOf(id) = hResp[r].msgId
           /\ ShardId(hResp[r].msgId) = msgLog[id].shard

\* two handlers hold successful replies of workers of different shards
C11_Witness ==
  \E r, q \in EnqueueRequests :
    /\ hPc[r] = "done" /\ ~hResp[r].err
    /\ hPc[q] = "done" /\ ~hResp[q].err
    /\ ShardId(hResp[r].msgId) = 1
    /\ ShardId(hResp[q].msgId) = 2

\* a step is a Route call: a channel grew or the recorded outcome changed
routeStep ==
  \/ routed' # routed
  \/ \E s \in Shards : Len(ackCh'[s]) > Len(ackCh[s])

\* C12: Route(id, req) appends req to the channel of the worker registered
\* for id.ShardId() and leaves every other channel as it was; for a shard id
\* without a registered worker it returns an error and changes no channel.
C12_RouteByShardId ==
  [][routeStep =>
       LET uid == routed'.uid
           sid == ShardId(uid)
       IN IF sid \in Shards
          THEN /\ ~routed'.err
               /\ Len(ackCh'[sid]) = Len(ackCh[sid]) + 1
               /\ ackCh'[sid][Len(ackCh'[sid])].id = uid
               /\ \A s \in Shards \ {sid} : ackCh'[s] = ackCh[s]
          ELSE /\ routed'.err
               /\ ackCh' = ackCh]_vars

\* a request for an unknown shard was refused while a request for a row of
\* shard 2 waits on the channel of worker 2 alone
C12_Witness ==
  /\ routed.err
  /\ ShardId(routed.uid) = UnknownShard
  /\ ackCh[1] = << >>
  /\ Len(ackCh[2]) = 1
  /\ rowsWithId(2, ackCh[2][1].id) # {}

\* worker 1 returns from dequeueMessages after a query that succeeded with
\* no row, or sends the rows of the query to the buffer
pollStep ==
  /\ dwPc[1] = "select" /\ dwTimer[1] = 0
  /\ repoErrs' = repoErrs
  /\ dwPc'[1] = "ingest" \/ dwTimer'[1] > 0

\* worker 1 finishes processPrefetchResponse and the update
updateStep == dwPc[1] = "update" /\ dwPc'[1] = "select"

\* the backoff of topic t of worker 1 exists and has not elapsed
live(t) == t \in DOMAIN topicBackoffs[1] /\ ~Active(topicBackoffs[1][t])

\* the backoff of topic t of worker 1 exists and has elapsed
elapsed(t) == t \in DOMAIN topicBackoffs[1] /\ Active(topicBackoffs[1][t])

\* rows of shard 1 the query can return when the topics in ex are excluded
readyRows(ex) ==
  { id \in rowIds : /\ msgLog[id].shard = 1
                    /\ msgLog[id].readyAt <= now
                    /\ msgLog[id].expiresAt > now
                    /\ id \notin prefetched
                    /\ msgLog[id].topic \notin ex }

topicsOf(batch) == { batch[i].topic : i \in 1..Len(batch) }

\* C13: a BACKOFF status for a message of topic t leaves the backoff of t
\* live; a query issued while that backoff is live returns no row of t and
\* keeps the entry; a query issued after it has elapsed removes the entry
\* and returns the rows of t again (all of them when the batch has room).
C13_TopicBackoff ==
  [][\A t \in Topics :
       /\ updateStep /\ (\E i \in 1..Len(dwReply[1]) :
                           /\ dwReply[1][i] = PrefetchStatusBackoff
                           /\ dwBatch[1][i].topic = t)
            => live(t)'
       /\ pollStep /\ live(t)
            => /\ t \notin topicsOf(dwBatch'[1])
               /\ topicBackoffs'[1][t] = topicBackoffs[1][t]
       /\ pollStep /\ elapsed(t)
            => /\ t \notin DOMAIN topicBackoffs'[1]
               /\ LET rows == readyRows({ x \in Topics : live(x) })
                  IN /\ Cardinality(rows) <= dequeueBatchSize
                     /\ \E id \in rows : msgLog[id].topic = t
                     => t \in topicsOf(dwBatch'[1])]_vars

\* the worker has queried while the backoff of topic 2 is live: the batch
\* holds rows of topic 1 only although a row of topic 2 is ready
C13_Witness ==
  /\ dwPc[1] = "ingest"
  /\ live(2)
  /\ topicsOf(dwBatch[1]) = {1}
  /\ \E id \in readyRows({}) : msgLog[id].topic = 2

\* base * (factor^n - 1) / (factor - 1), the sum of base * factor^i for
\* i < n, cut at cap; computed as base + factor * (the sum for n - 1), which
\* stays within 32-bit integers
RECURSIVE geometricDelay(_, _)
geometricDelay(p, n) ==
  IF n = 0 THEN 0
  ELSE LET prev == geometricDelay(p, n - 1)
       IN IF prev >= p.cap THEN p.cap ELSE Min(p.cap, p.base + p.factor * prev)

\* C14: after N consecutive Backoff() calls on a new or reset strategy the
\* delay is min(cap, base * (factor^N - 1) / (factor - 1)); after Reset()
\* (N = 0) it is zero.
C14_DelayFormula == bo.duration = geometricDelay(boParams, boCalls)

\* the same for the parameters of the dequeue worker only
DelayFormulaOfWorker ==
  boParams \in { loopParams, tickParams } => C14_DelayFormula

\* C15: the delay never exceeds the cap, whatever the calls; a Backoff()
\* call at the cap leaves the delay at the cap, and MaxBackoffCalls
\* consecutive calls reach it.
C15_DelayCapped ==
  /\ bo.duration <= boParams.cap
  /\ [][/\ bo'.duration <= boParams'.cap
        /\ boCalls' = MaxBackoffCalls => bo'.duration = boParams'.cap
        /\ boCalls' = boCalls + 1 /\ bo.duration = boParams.cap
             => bo'.duration = boParams.cap]_vars

\* TestBackoffMaxBound: ten calls on NewBackoff(time.Second, 2, time.Minute)
C15_Witness ==
  /\ boParams = testParams
  /\ boCalls = MaxBackoffCalls
  /\ bo.duration = Minute

\* a Reset() call of the strategy
resetStep == bo' = Reset(bo) /\ boParams' = boParams /\ boCalls' = 0

dequeueError(w) ==
  /\ repoErrs' = repoErrs + 1
  /\ \/ dwPc[w] = "select" /\ dwTimer[w] = 0 /\ dwErr'[w] /\ dwBatch'[w] = << >>
        /\ ewPc' = ewPc /\ ackCh' = ackCh
     \/ dwPc[w] = "update" /\ dwPc'[w] = "select"

\* C17: when an iteration of the dequeue worker fails after the iteration
\* before it failed too, the worker waited a positive delay before the
\* attempt, and the delay before the next attempt is longer or at the cap.
C17_ErrorsEscalate ==
  [][\A w \in Shards :
       dequeueError(w) /\ dwErr[w]
         => /\ After(loopBackoff[w]) > 0
            /\ \/ After(loopBackoff'[w]) > After(loopBackoff[w])
               \/ After(loopBackoff'[w]) = backoffMaxDuration]_vars

\* a Save of the enqueue worker of shard 1 fails
enqueueError ==
  repoErrs' = repoErrs + 1 /\ ewPc[1] = "select" /\ ewPc'[1] = "reply"

\* an AckNack of the ack worker of shard 1 fails
ackNackError == repoErrs' = repoErrs + 1 /\ Len(ackCh'[1]) < Len(ackCh[1])

\* C18: a failing repository call stops no worker and takes no Stop off a
\* shutdown channel; the enqueue worker goes on to reply the error, the
\* dequeue worker is back at its select; a worker stops only by taking a
\* Stop; a running worker at its select takes the next request, starts the
\* next iteration and takes a pending Stop.
C18_ErrorsDoNotStop ==
  /\ [][/\ repoErrs' > repoErrs => stopped' = stopped /\ stopReq' = stopReq
        /\ enqueueError => ewReply'[1].err
        /\ dequeueError(1) => dwPc'[1] = "select"
        /\ ackNackError => AckNackW(1) \notin stopped'
        /\ \A w \in Workers1 :
             w \in stopped' /\ w \notin stopped => w \in stopReq]_vars
  /\ [](/\ EnqueueW(1) \notin stopped /\ ewPc[1] = "select" /\ enqCh # << >>
             => ENABLED EnqueueRecv(1, TRUE)
        /\ DequeueW(1) \notin stopped /\ dwPc[1] = "select" /\ dwTimer[1] = 0
             => ENABLED DequeuePoll(1)
        /\ AckNackW(1) \notin stopped /\ ackCh[1] # << >>
             => ENABLED AckNackWorker(1, TRUE)
        /\ EnqueueW(1) \in stopReq /\ ewPc[1] = "select"
             => ENABLED EnqueueShutdown(1)
        /\ DequeueW(1) \in stopReq /\ dwPc[1] = "select"
             => ENABLED DequeueShutdown(1)
        /\ AckNackW(1) \in stopReq => ENABLED AckNackShutdown(1))

\* the Save of the first request failed and the caller got the error, the
\* worker then saved the second request; another repository call failed as
\* well, and every worker has acknowledged its Stop
C18_Witness ==
  /\ hPc[1] = "done" /\ hResp[1].err
  /\ hPc[2] = "done" /\ ~hResp[2].err /\ rowIds # {}
  /\ repoErrs = MaxRepoErrors
  /\ Workers1 \subseteq stopped

\* the enqueue worker of shard s gives up sending its reply
replyTimeoutStep(s) ==
  ewPc[s] = "reply" /\ ewPc'[s] = "select" /\ hPc' = hPc

\* C19: while the enqueue worker is sending a reply the timer case is
\* enabled, whatever the caller does; taking it discards the reply, hands
\* nothing to the caller and keeps every row; the worker is then at its
\* select, where it takes the next request and a pending Stop.
C19_ReplyBounded ==
  /\ [][\A s \in Shards :
          replyTimeoutStep(s)
            => /\ ewReply'[s] = NoEnqueueResponse
               /\ hResp' = hResp
               /\ msgLog' = msgLog /\ rowIds' = rowIds
               /\ rowsOf(ewReply[s].req) \subseteq rowIds']_vars
  /\ [](\A s \in Shards :
          /\ ewPc[s] = "reply" => ENABLED EnqueueReplyTimeout(s)
          /\ ewPc[s] = "select" /\ EnqueueW(s) \notin stopped /\ enqCh # << >>
               => ENABLED EnqueueRecv(s, TRUE)
          /\ ewPc[s] = "select" /\ EnqueueW(s) \in stopReq
               => ENABLED EnqueueShutdown(s))

\* the caller of a request gave up and never got a reply, the row of the
\* request is in the table, and the worker that saved it has saved a later
\* request and has acknowledged Stop
C19_Witness ==
  \E id \in rowIds, id2 \in rowIds :
    /\ hPc[msgLog[id].req] = "gone"
    /\ hResp[msgLog[id].req] = NoEnqueueResponse
    /\ id2 > id
    /\ msgLog[id2].shard = msgLog[id].shard
    /\ EnqueueW(msgLog[id].shard) \in stopped

\* the serveLoop gives up sending the reply of a GetItems request
dropStep ==
  pbPc = "reply" /\ pbPc' = "select" /\ cPc'[pbReply.c] = "wait"

\* handler c sent its request, the request was taken off the channel and
\* the reply was dropped
dropped(c) ==
  /\ cPc[c] = "wait"
  /\ \A k \in DOMAIN apiReqCh : apiReqCh[k].c # c
  /\ pbReply.c # c

\* C20: while the serveLoop is sending a GetItems reply the timeout case is
\* enabled; taking it drops the reply, hands nothing to the handler and
\* leaves the heaps, the channels and the loop running; at its select the
\* loop then takes a waiting envelope, a waiting GetItems request and a
\* pending shutdown.
C20_DropContinues ==
  /\ [][dropStep
          => /\ pbReply' = NoReply
             /\ cHeld' = cHeld
             /\ buffers' = buffers
             /\ ingestCh' = ingestCh /\ apiReqCh' = apiReqCh
             /\ BufferW \notin stopped']_vars
  /\ [](/\ pbPc = "reply" => ENABLED BufferDrop
        /\ pbPc = "select" /\ BufferW \notin stopped /\ ingestCh # << >>
             => ENABLED BufferIngest
        /\ pbPc = "select" /\ BufferW \notin stopped /\ apiReqCh # << >>
             => ENABLED BufferGetItems
        /\ pbPc = "select" /\ BufferW \in stopReq => ENABLED BufferShutdown)

\* the reply to handler 1 was dropped; the loop has since taken the request
\* of handler 2 and is sending it messages, with a Stop waiting
C20_Witness ==
  /\ dropped(1)
  /\ pbPc = "reply" /\ pbReply.c = 2 /\ pbReply.msgs # << >>
  /\ BufferW \in stopReq

\* no Stop stays called and unanswered for ever (App.Run calls one at a time)
StopReturns == []<>(stopReq = {})

\* the loop of worker w does nothing
idle(w) ==
  \/ /\ w[1] = "enqueue"
     /\ ewPc'[w[2]] = ewPc[w[2]] /\ ewReply'[w[2]] = ewReply[w[2]]
     /\ \A id \in DOMAIN msgLog' \ DOMAIN msgLog : msgLog'[id].shard # w[2]
  \/ /\ w[1] = "dequeue"
     /\ dwPc'[w[2]] = dwPc[w[2]] /\ dwBatch'[w[2]] = dwBatch[w[2]]
     /\ loopBackoff'[w[2]] = loopBackoff[w[2]]
     /\ \A id \in prefetched' \ prefetched : msgLog[id].shard # w[2]
  \/ /\ w[1] = "acknack"
     /\ Len(ackCh'[w[2]]) >= Len(ackCh[w[2]])
  \/ /\ w[1] = "buffer"
     /\ pbPc' = pbPc /\ buffers' = buffers /\ pbReply' = pbReply
     /\ Len(ingestCh') >= Len(ingestCh) /\ Len(apiReqCh') >= Len(apiReqCh)

\* C21: a Stop that has been called returns; a worker is stopped only by
\* acknowledging a Stop that was called; a stopped worker stays stopped and
\* its loop takes no request, sends no reply and makes no repository call.
C21_StopReturns ==
  /\ StopReturns
  /\ [][\A k \in DOMAIN workers :
          LET w == workers[k]
          IN /\ w \in stopped' /\ w \notin stopped
                  => w \in stopReq /\ w \notin stopReq'
             /\ w \in stopped => w \in stopped' /\ idle(w)]_vars

\* every loop has acknowledged its Stop; the dequeue worker of shard 1 was
\* stopped after it had marked a row as prefetched
C21_Witness ==
  /\ \A k \in DOMAIN workers : workers[k] \in stopped
  /\ prefetched # {}
  /\ \E id \in prefetched : msgLog[id].shard = 1

\* workers[i] was registered before workers[j]
before(i, j) == i \in DOMAIN workers /\ j \in DOMAIN workers /\ i < j

\* C22: the shard connections are closed after every worker has stopped;
\* Stop is called on a worker only when every worker registered after it has
\* stopped, so on the buffer only when every dequeue worker has stopped; once
\* the shutdown has begun it reaches the close of the connections.
C22_ShutdownOrder ==
  /\ [](Cleanup \in stopped => \A k \in DOMAIN workers : workers[k] \in stopped)
  /\ [](\A i, j \in DOMAIN workers :
          before(i, j) /\ workers[i] \in called => workers[j] \in stopped)
  /\ [](BufferW \in called => \A s \in Shards : DequeueW(s) \in stopped)
  /\ []<>(called # {} => Cleanup \in stopped)

\* the connections are closed after a run in which a consumer got a message
\* that a dequeue worker had handed to the buffer
C22_Witness ==
  /\ Cleanup \in stopped
  /\ \E c \in Consumers : cHeld[c] # {}

\* C23: a stopped ack worker has left no request in its channel, and once
\* every enqueue worker has stopped the shared enqueue channel is empty.
C23_DrainedAtExit ==
  /\ \A s \in Shards : AckNackW(s) \in stopped => ackCh[s] = << >>
  /\ (\A s \in Shards : EnqueueW(s) \in stopped) => enqCh = << >>

\* the messages of a reply are in ascending order of priority
ascending(msgs) ==
  \A i, j \in 1..Len(msgs) : i < j => msgs[i].priority < msgs[j].priority

\* C24: a reply with messages to a dequeue made after all the messages were
\* saved carries all of them, in ascending order of priority.
C24_AllInOrder ==
  pbPc = "reply" /\ pbReply.msgs # << >>
    => Len(pbReply.msgs) = MaxPrioMsgs /\ ascending(pbReply.msgs)

\* C25: an id made by NewUUID and formatted by String is parsed back to the same
\* bytes, and NewUUID(s) has shard id s, for every value s of uint32.
C25_RoundTrip ==
  /\ [](uuPc = "parsed" /\ uuid # << >> => ~parsed.err /\ parsed.uid = uuid)
  /\ [][\A shardId \in ShardIds, x \in XIDs :
          NewUUIDCall(shardId, x) => ShardIdBytes(uuid') = shardId]_vars

\* the id of the largest shard id, with an XID whose last character carries
\* padding, has been formatted and parsed
C25_Witness ==
  /\ uuPc = "parsed" /\ uuid # << >>
  /\ ShardIdBytes(uuid) = pow2(ShardBits) - 1
  /\ XIDBytes(uuid) = [i \in 1..XidBytes |-> pow2(ByteBits) - 1]
  /\ parsed.uid = uuid

\* v is digits that name a value of uint32, the separator and a string that
\* xid accepts
wellFormed(v) ==
  LET tokens == Split(v, "-")
  IN /\ Len(tokens) = 2
     /\ tokens[1] # << >>
     /\ \A i \in 1..Len(tokens[1]) : isDigit(tokens[1][i])
     /\ valueOf(tokens[1]) \in ShardIds
     /\ ~FromString(tokens[2]).err

\* C26: ParseUUID(v) fails or returns an id whose String() is v, and it fails
\* for every v that is not well formed.
C26_ParseInverse ==
  uuPc = "parsed" =>
    /\ parsed.err \/ String(parsed.uid) = text
    /\ ~wellFormed(text) => parsed.err

\* a reply to the GetItems call of handler c is still to come
replyComing(c) ==
  \/ pbReply.c = c /\ pbPc = "reply"
  \/ /\ \E i \in 1..Len(apiReqCh) : apiReqCh[i].c = c
     /\ BufferW \notin stopped

\* C27: a dequeue handler whose deadline has passed has written its response
\* or is not blocked: it is at its select, or the reply it waits for comes.
C27_NotBlockedPastDeadline ==
  \A c \in Consumers :
    cDeadline[c] = 0 /\ cStatus[c] = 0 => cPc[c] = "idle" \/ replyComing(c)

\* C28: a handler that received the worker's reply has answered 500 with the
\* error of Save when the reply carries one, 201 "created" with the id of the
\* reply otherwise.
C28_EnqueueStatus ==
  \A r \in EnqueueRequests :
    hPc[r] = "done" =>
      LET resp == enqueueResponse(hResp[r], NilError)
      IN IF hResp[r].err
         THEN resp.status = 500 /\ resp.body = "save failed"
         ELSE /\ resp.status = 201 /\ resp.body = "created"
              /\ resp.msgId = hResp[r].msgId

\* the handler answered with a client error
is4xx(resp) == resp.status >= 400 /\ resp.status <= 499

\* C29: an ack with a malformed id, an enqueue without a namespace and an ack
\* whose id names a shard without a route are answered with a 4xx status.
C29_InvalidIs4xx ==
  /\ httpReq.kind = "ack" /\ ParseUUID(httpReq.id).err => is4xx(httpResp)
  /\ httpReq.kind = "enqueue" /\ httpReq.id = << >> => is4xx(httpResp)
  /\ /\ httpReq.kind = "ack" /\ ~ParseUUID(httpReq.id).err
     /\ ShardIdBytes(ParseUUID(httpReq.id).uid) \notin DOMAIN routes
     => is4xx(httpResp)

\* C30: once a shard has been added, the ids of Shards() are pairwise
\* distinct, Get(id) is the shard listed under id, and exactly one shard is
\* main, which MainShard() returns.
C30_ShardInvariant ==
  smShards # << >> =>
    /\ \A i, j \in DOMAIN smShards : i # j => smShards[i].Id # smShards[j].Id
    /\ \A i \in DOMAIN smShards : Get(smShards[i].Id) = smShards[i]
    /\ Cardinality({ i \in DOMAIN smShards : smShards[i].main }) = 1
    /\ MainShard # NilShard /\ MainShard.main

\* ---- ObjectsCache (objects-cache/cache.go) --------------------------------
\* A *CacheItem is the record of its fields. A critical section of c.mu is one
\* step; Put is two of them, the one of c.Delete(k) and its own.

maxItems == 2
itemsTTL == 1
MaxCacheTime == 2
MaxHeapLen == 3
Keys == { "a", "b", "c" }
Values == { 1, 2 }

\* the nil *CacheItem
NilItem == [Key |-> "", Value |-> 0, ExpiryTime |-> -1]

\* the heap is ordered by Key instead of ExpiryTime
cacheLessByKey(h, i, j) == h[i + 1].Key = "a" /\ h[j + 1].Key # "a"

\* cacheItemHeap.Less
cacheLess(h, i, j) == h[i + 1].ExpiryTime < h[j + 1].ExpiryTime

\* container/heap up and down over a cacheItemHeap
RECURSIVE cacheUp(_, _)
cacheUp(h, j) ==
  IF j = 0 THEN h
  ELSE LET i == (j - 1) \div 2 IN
       IF ~cacheLess(h, j, i) THEN h ELSE cacheUp(Swap(h, i, j), i)

RECURSIVE cacheDown(_, _, _)
cacheDown(h, i, n) ==
  LET j1 == 2 * i + 1 IN
  IF j1 >= n THEN h
  ELSE LET j2 == j1 + 1
           j  == IF j2 < n /\ cacheLess(h, j2, j1) THEN j2 ELSE j1
       IN IF ~cacheLess(h, j, i) THEN h ELSE cacheDown(Swap(h, i, j), j, n)

\* heap.Push(&c.evictionHeap, item)
cachePush(h, x) == cacheUp(Append(h, x), Len(h))

\* heap.Pop(&c.evictionHeap): the popped item and the remaining heap
cachePop(h) ==
  LET n == Len(h) - 1
      s == cacheDown(Swap(h, 0, n), 0, n)
  IN [item |-> s[n + 1], heap |-> SubSeq(s, 1, n)]

\* heap.Remove(&c.evictionHeap, i): down reports a move by changing the heap
cacheRemove(h, i) ==
  LET n == Len(h) - 1
      d == cacheDown(Swap(h, i, n), i, n)
      s == IF n = i THEN h
           ELSE IF d # Swap(h, i, n) THEN d ELSE cacheUp(d, i)
  IN SubSeq(s, 1, n)

\* delete(m, k) of a map
delete(m, k) == [x \in DOMAIN m \ {k} |-> m[x]]

\* m[k] = v of a map
store(m, k, v) == [x \in DOMAIN m \cup {k} |-> IF x = k THEN v ELSE m[x]]

\* the body of Delete: k leaves the map and the first heap entry with Key k
\* is removed
deleteLocked(its, h, k) ==
  LET found == { i \in 0..(Len(h) - 1) : h[i + 1].Key = k }
      first == CHOOSE i \in found : \A j \in found : i <= j
  IN [items |-> delete(its, k),
      heap  |-> IF found = {} THEN h ELSE cacheRemove(h, first)]

\* evict(1)
evict(its, h) ==
  IF Len(h) > 0
  THEN LET r == cachePop(h)
       IN [items |-> delete(its, r.item.Key), heap |-> r.heap,
           evicted |-> {r.item.Key}]
  ELSE [items |-> its, heap |-> h, evicted |-> {}]

\* Put(k, v), line 41: c.Delete(k) takes the lock and releases it
PutDelete(g, k, v) ==
  /\ ocPc[g] = NoPut
  /\ Len(evictionHeap) < MaxHeapLen
  /\ LET r == deleteLocked(cacheItems, evictionHeap, k)
     IN /\ cacheItems' = r.items
        /\ evictionHeap' = r.heap
  /\ ocPc' = [ocPc EXCEPT ![g] = [Key |-> k, Value |-> v]]
  /\ ocPuts' = delete(ocPuts, k)
  /\ UNCHANGED ocLast
  /\ UNCHANGED << now, dbVars, repoErrs, acked, nacked, dwVars, pbVars,
                  cVars, ackCh, envIds, ewVars, routed, runVars, boVars,
                  uuVars, hdVars, httpVars, smVars, droppedIds >>

\* Put(k, v), lines 43-57: under the lock, evict when full, then insert
PutInsert(g) ==
  /\ ocPc[g] # NoPut
  /\ LET k    == ocPc[g].Key
         full == Cardinality(DOMAIN cacheItems) >= maxItems
         r    == IF full THEN evict(cacheItems, evictionHeap)
                 ELSE [items |-> cacheItems, heap |-> evictionHeap,
                       evicted |-> {}]
         item == [Key |-> k, Value |-> ocPc[g].Value,
                  ExpiryTime |-> now + itemsTTL]
     IN /\ cacheItems' = store(r.items, k, item)
        /\ evictionHeap' = cachePush(r.heap, item)
        /\ ocLast' = [op |-> "put", key |-> k, item |-> item,
                      full |-> full, evicted |-> r.evicted]
        /\ ocPuts' = store([x \in DOMAIN ocPuts \ r.evicted |-> ocPuts[x]],
                           k, [Value |-> ocPc[g].Value, at |-> now])
  /\ ocPc' = [ocPc EXCEPT ![g] = NoPut]
  /\ UNCHANGED << now, dbVars, repoErrs, acked, nacked, dwVars, pbVars,
                  cVars, ackCh, envIds, ewVars, routed, runVars, boVars,
                  uuVars, hdVars, httpVars, smVars, droppedIds >>

\* Delete(k)
Delete(g, k) ==
  /\ ocPc[g] = NoPut
  /\ LET r == deleteLocked(cacheItems, evictionHeap, k)
     IN /\ cacheItems' = r.items
        /\ evictionHeap' = r.heap
  /\ ocLast' = [op |-> "delete", key |-> k]
  /\ ocPuts' = delete(ocPuts, k)
  /\ UNCHANGED ocPc
  /\ UNCHANGED << now, dbVars, repoErrs, acked, nacked, dwVars, pbVars,
                  cVars, ackCh, envIds, ewVars, routed, runVars, boVars,
                  uuVars, hdVars, httpVars, smVars, droppedIds >>

\* the item counts as expired from its ExpiryTime on
expiredAtExpiry(item, t) == t >= item.ExpiryTime

\* time.Now().After(item.ExpiryTime)
expired(item, t) == t > item.ExpiryTime

\* Get(k): nil when k is not in the map or time.Now() is after ExpiryTime
CacheGet(g, k) ==
  /\ ocPc[g] = NoPut
  /\ ocLast' = [op |-> "get", key |-> k, at |-> now,
                item |-> IF k \notin DOMAIN cacheItems THEN NilItem
                         ELSE IF expired(cacheItems[k], now) THEN NilItem
                         ELSE cacheItems[k]]
  /\ UNCHANGED << cacheItems, evictionHeap, ocPc, ocPuts >>
  /\ UNCHANGED << now, dbVars, repoErrs, acked, nacked, dwVars, pbVars,
                  cVars, ackCh, envIds, ewVars, routed, runVars, boVars,
                  uuVars, hdVars, httpVars, smVars, droppedIds >>

\* time passes between two calls
CacheTick ==
  /\ now < MaxTime + MaxCacheTime
  /\ now' = now + 1
  /\ UNCHANGED << dbVars, repoErrs, acked, nacked, dwVars, pbVars,
                  cVars, ackCh, envIds, ewVars, routed, runVars, boVars,
                  libVars >>

\* SpecCache: goroutines call Put, Get and Delete concurrently
NextCache ==
  \/ \E g \in Goroutines, k \in Keys, v \in Values : PutDelete(g, k, v)
  \/ \E g \in Goroutines : PutInsert(g)
  \/ \E g \in Goroutines, k \in Keys : Delete(g, k)
  \/ \E g \in Goroutines, k \in Keys : CacheGet(g, k)
  \/ CacheTick

SpecCache == Init /\ [][NextCache]_vars

\* SpecCacheSeq: one goroutine calls Put, Get and Delete one after the other
NextCacheSeq ==
  \/ \E k \in Keys, v \in Values : PutDelete(1, k, v)
  \/ PutInsert(1)
  \/ \E k \in Keys : Delete(1, k)
  \/ \E k \in Keys : CacheGet(1, k)
  \/ CacheTick

SpecCacheSeq == Init /\ [][NextCacheSeq]_vars

\* the map and the heap hold the same entries
sameEntries ==
  /\ Len(evictionHeap) = Cardinality(DOMAIN cacheItems)
  /\ \A k \in DOMAIN cacheItems :
       \E i \in 1..Len(evictionHeap) : evictionHeap[i] = cacheItems[k]

\* C31: under any interleaving of concurrent Put, Get and Delete calls the
\* items map and the eviction heap hold the same entries and len(items)
\* never exceeds maxItems
C31_ConcurrencySafe ==
  /\ sameEntries
  /\ Cardinality(DOMAIN cacheItems) <= maxItems

\* the entries with the earliest ExpiryTime
earliest(its) ==
  { e \in DOMAIN its :
      \A j \in DOMAIN its : its[e].ExpiryTime <= its[j].ExpiryTime }

\* the second critical section of a Put that finds the cache at capacity
\* takes out one of the earliest entries
evictsEarliest ==
  (/\ ocPc[1] # NoPut
   /\ ocPc'[1] = NoPut
   /\ Cardinality(DOMAIN cacheItems) >= maxItems)
  => \E e \in earliest(cacheItems) :
       DOMAIN cacheItems' = (DOMAIN cacheItems \ {e}) \cup {ocPc[1].Key}

\* a Get(k) that follows Delete(k) returns nil
getAfterDelete ==
  (/\ ocLast.op = "delete"
   /\ ocLast'.op = "get"
   /\ ocLast'.key = ocLast.key)
  => ocLast'.item = NilItem

\* C32: after any sequential sequence of Put and Delete calls
\* len(items) <= maxItems and len(evictionHeap) = len(items); a Put that
\* finds the cache at capacity evicts the entry with the earliest ExpiryTime;
\* Delete(k) removes k from both structures and Get(k) then returns nil
C32_Sequential ==
  /\ [](/\ Cardinality(DOMAIN cacheItems) <= maxItems
        /\ Len(evictionHeap) = Cardinality(DOMAIN cacheItems)
        /\ ocLast.op = "delete" =>
             /\ ocLast.key \notin DOMAIN cacheItems
             /\ \A i \in 1..Len(evictionHeap) :
                  evictionHeap[i].Key # ocLast.key)
  /\ [][evictsEarliest /\ getAfterDelete]_vars

\* a Put at capacity has evicted the older of two entries
C32_Witness ==
  /\ ocLast.op = "put"
  /\ ocLast.full
  /\ ocLast.evicted # {}
  /\ Cardinality(DOMAIN cacheItems) = maxItems
  /\ \E j \in DOMAIN cacheItems :
       cacheItems[j].ExpiryTime < ocLast.item.ExpiryTime

\* a Get(k) while the entry of the latest Put(k, v) is in place returns the
\* item holding v within the TTL of that Put and nil after it
getAfterPut ==
  (/\ ocLast' # ocLast
   /\ ocLast'.op = "get"
   /\ ocLast'.key \in DOMAIN ocPuts)
  => LET p == ocPuts[ocLast'.key]
     IN IF now <= p.at + itemsTTL
        THEN /\ ocLast'.item.Key = ocLast'.key
             /\ ocLast'.item.Value = p.Value
        ELSE ocLast'.item = NilItem

\* C33: after Put(k, v) with no intervening Put, Delete or eviction of k,
\* Get(k) returns the item holding v while now is within the TTL of that
\* Put, and nil once the TTL has passed
C33_GetAfterPut == [][getAfterPut]_vars

\* Get has returned the item at the very end of its TTL
C33_Witness ==
  /\ ocLast.op = "get"
  /\ ocLast.key \in DOMAIN ocPuts
  /\ ocLast.item # NilItem
  /\ ocLast.at = ocPuts[ocLast.key].at + itemsTTL

\* Get has returned nil for an entry still in the map after its TTL
C33_WitnessExpired ==
  /\ ocLast.op = "get"
  /\ ocLast.key \in DOMAIN ocPuts
  /\ ocLast.key \in DOMAIN cacheItems
  /\ ocLast.item = NilItem
  /\ ocLast.at = now

\* C34: After() fires without delay on a strategy that was never backed off
\* or was just Reset; after a Backoff() call its timer runs for the current
\* delay, which is not zero
C34_AfterDelay ==
  /\ boCalls = 0 => After(bo) = 0
  /\ boCalls > 0 => /\ After(bo) > 0
                    /\ After(bo) >= Min(boParams.base, boParams.cap)

\* the strategy of TestBackoff after its Backoff() call
C34_Witness ==
  /\ boParams = testParams
  /\ boCalls = 1
  /\ After(bo) = Second

\* ---- SpecGetItems: the buffer under requests with any limit ---------------
\* DequeueRequest.Limit is an int decoded from the body and passed on as is

SignedLimits == { -1, 0, 1 }

NextGetItems ==
  \/ \E w \in Shards : \E batch \in EnvBatches : OfferBatch(w, batch)
  \/ \E w \in Shards : TakeReply(w)
  \/ BufferIngest
  \/ BufferGetItems
  \/ BufferDeliver
  \/ BufferDrop
  \/ \E c \in Consumers, t \in Topics, l \in SignedLimits :
        HandleDequeue(c, t, l)

SpecGetItems == Init /\ [][NextGetItems]_vars

\* a GetItems step answers with min(|heap|, L') messages of lowest priority
\* value, takes them and nothing else out of the heap, and creates no heap
getItemsReply ==
  (pbPc = "select" /\ pbPc' # "select")
  => LET req   == Head(apiReqCh)
         limit == IF req.limit = 0 THEN defaultDequeueLimitPerTopic
                  ELSE req.limit
     IN /\ pbPc' = "reply"
        /\ DOMAIN buffers' = DOMAIN buffers
        /\ \A t \in DOMAIN buffers \ {req.topic} : buffers'[t] = buffers[t]
        /\ IF req.topic \notin DOMAIN buffers THEN pbReply'.msgs = << >>
           ELSE LET old  == buffers[req.topic]
                    left == buffers'[req.topic]
                    out  == pbReply'.msgs
                IN /\ Len(out) = Min(Len(old), limit)
                   /\ Len(left) = Len(old) - Len(out)
                   /\ idsOf(left) \cup idsOf(out) = idsOf(old)
                   /\ idsOf(left) \cap idsOf(out) = {}
                   /\ \A m \in Range(out), x \in Range(left) :
                        m.priority <= x.priority

\* C35: GetItems for topic T with limit L returns exactly min(|heap[T]|, L')
\* messages, L' = 20 when L is 0 and L otherwise: the entries of lowest
\* priority value, removed from the heap while the others stay; for a topic
\* with no heap it returns an empty list and creates no heap
C35_GetItems == [][getItemsReply]_vars

\* ---- SpecHeap: one msgHeap under heap.Push and heap.Pop -------------------
\* The heap is the one of topic 1; ids count the pushes; the popped messages
\* are kept in pbReply in the order of the pops.

MaxHeapPushes == 4

\* heap.Push(tHeap, &msg)
PushCall(p) ==
  /\ envIds < MaxHeapPushes
  /\ LET msg == [id |-> envIds + 1, topic |-> 1, priority |-> p]
         h   == IF 1 \in DOMAIN buffers THEN buffers[1] ELSE << >>
     IN buffers' = [t \in {1} |-> heapPush(h, msg)]
  /\ envIds' = envIds + 1
  /\ UNCHANGED << now, dbVars, repoErrs, acked, nacked, dwVars, ingestCh,
                  apiReqCh, pbPc, pbReply, cVars, ackCh, ewVars, routed,
                  runVars, boVars, libVars >>

\* heap.Pop(tHeap)
PopCall ==
  /\ 1 \in DOMAIN buffers
  /\ buffers[1] # << >>
  /\ LET r == heapPop(buffers[1])
     IN /\ buffers' = [buffers EXCEPT ![1] = r.heap]
        /\ pbReply' = [pbReply EXCEPT !.msgs = Append(@, r.item)]
  /\ UNCHANGED << now, dbVars, repoErrs, acked, nacked, dwVars, ingestCh,
                  apiReqCh, pbPc, cVars, ackCh, envIds, ewVars, routed,
                  runVars, boVars, libVars >>

NextHeap ==
  \/ \E p \in Priorities : PushCall(p)
  \/ PopCall

SpecHeap == Init /\ [][NextHeap]_vars

\* C36: within one topic, messages of equal Priority are delivered in the
\* order in which they were inserted into the heap
C36_EqualPriorityFifo ==
  \A i, j \in 1..Len(pbReply.msgs) :
    (i < j /\ pbReply.msgs[i].priority = pbReply.msgs[j].priority)
    => pbReply.msgs[i].id < pbReply.msgs[j].id

\* a message of a dropped reply that was not NACKed since is in no batch a
\* dequeue worker fetches and in no reply the buffer makes
notReturnedAgain ==
  /\ (pbPc = "select" /\ pbPc' = "reply")
       => idsOf(pbReply'.msgs) \cap droppedIds = {}
  /\ \A w \in Shards :
       (dwPc[w] = "select" /\ dwPc'[w] = "ingest")
         => idsOf(dwBatch'[w]) \cap droppedIds = {}

\* C37: when a GetItems reply is dropped its messages are not pushed back
\* onto the heap, and unless they are NACKed they are not returned by any
\* later GetItems or FindMessagesReadyForDelivery(prefetched=false)
C37_DroppedStayOut ==
  [][/\ dropStep => buffers' = buffers
     /\ notReturnedAgain]_vars

\* C38: as long as it is not NACKed a message is handed to consumers at most
\* once: no message id is in the buffer twice, and none is in the buffer or
\* in a reply while a consumer holds it, also when UpdatePrefetchedBatch or
\* its Commit fails
C38_AtMostOnce ==
  /\ \A t \in DOMAIN buffers : \A i, j \in 1..Len(buffers[t]) :
       (i < j /\ buffers[t][i].id = buffers[t][j].id)
         => buffers[t][i].id \in nacked
  /\ \A c \in Consumers : \A id \in cHeld[c] :
       (id \in idsOf(pbReply.msgs) \/ \E t \in DOMAIN buffers :
                                        id \in idsOf(buffers[t]))
         => id \in nacked

\* the serveLoop can take a step
loopCanStep ==
  ENABLED (BufferIngest \/ BufferGetItems \/ BufferDeliver \/ BufferDrop)

\* C39: while no Stop has been requested the buffer loop, the dequeue workers
\* and the dequeue handlers never deadlock: while an envelope or a GetItems
\* request waits on its channel the loop can take a step, a worker that
\* waits for its status reply has its envelope on the channel, and a handler
\* that waits for its reply has its request on the channel or its reply
\* being sent
C39_NoDeadlock ==
  /\ (ingestCh # << >> \/ apiReqCh # << >>) => loopCanStep
  /\ \A w \in Shards :
       dwPc[w] = "ingest" => \E k \in DOMAIN ingestCh : ingestCh[k] = w
  /\ \A c \in Consumers : cPc[c] = "wait" => replyComing(c)

\* ---- SpecExpiry: SpecTimed with the two clock readings of Save ------------
\* Save computes readyat from one time.Now() and expiresat from a second one
\* (lines 107-108); the row is inserted after the second reading.

\* the row of a Save whose first reading of the clock was t1
SaveRead(shard, topic, priority, deliverAfter, ttl, t1) ==
  [Save(shard, topic, priority, deliverAfter, ttl) EXCEPT
     !.savedAt = t1, !.readyAt = t1 + deliverAfter]

\* enqueueMessage: the clock may advance between the two readings
EnqueueTwoReadings(s, topic, priority, deliverAfter, ttl, maxRows) ==
  /\ Len(msgLog) < maxRows
  /\ \E t1 \in { t \in { now - 1, now } : t >= 0 } :
       msgLog' = Append(msgLog, SaveRead(s, topic, priority, deliverAfter,
                                         ttl, t1))
  /\ rowIds' = rowIds \cup {Len(msgLog) + 1}
  /\ UNCHANGED << now, prefetched, repoErrs, acked, nacked, dwVars, pbVars,
                  cVars, ackCh, envIds >>
  /\ UNCHANGED << ewVars, routed, runVars >>
  /\ UNCHANGED << boVars, libVars >>

NextExpiry ==
  \/ Tick
  \/ \E d \in 0..MaxDelay, ttl \in 0..MaxTTL :
        EnqueueTwoReadings(1, 1, 1, d, ttl, MaxTimedMsgs)
  \/ DequeuePoll(1)
  \/ DequeueUpdate(1, TRUE)
  \/ BufferIngest
  \/ BufferGetItems
  \/ BufferDeliver
  \/ \E c \in Consumers, l \in Limits : HandleDequeue(c, 1, l)
  \/ \E c \in Consumers, id \in 1..MaxTimedMsgs, a \in BOOLEAN :
        HandleAckNack(c, id, a)
  \/ AckNackWorker(1, TRUE)

SpecExpiry == InitTimed /\ [][NextExpiry]_vars

\* C40: a message enqueued with TTL <= DeliverAfter is never returned by
\* FindMessagesReadyForDelivery, never prefetched and never delivered
C40_NeverReturned ==
  \A id \in UNION { idsOf(dwBatch[w]) : w \in Shards }
            \cup prefetched
            \cup UNION { heapIds(buffers, t) : t \in DOMAIN buffers }
            \cup idsOf(pbReply.msgs)
            \cup UNION { cHeld[c] : c \in Consumers } :
    msgLog[id].ttl > msgLog[id].deliverAfter

====
